---------------------------- MODULE Spec2Model ----------------------------
(***************************************************************************)
(* A model of Matugenium: the command line front end (cli.py), the profile *)
(* state store (state.py), generation and removal of per-application       *)
(* colour profiles (generate.py) and application matching (detect.py).     *)
(*                                                                         *)
(* Text is modelled as a sequence of one-character strings, so that the    *)
(* code's character-level operations (lower-casing, substring tests, key   *)
(* normalisation, path splitting) are computed rather than assumed.        *)
(***************************************************************************)
EXTENDS Integers, Sequences, FiniteSets, TLC

(***************************************************************************)
(* Characters and strings (Python str over the ASCII letters, digits and   *)
(* punctuation that occur in the model's inputs).                          *)
(***************************************************************************)
LowerCase == <<"a","b","c","d","e","f","g","h","i","j","k","l","m",
               "n","o","p","q","r","s","t","u","v","w","x","y","z">>
UpperCase == <<"A","B","C","D","E","F","G","H","I","J","K","L","M",
               "N","O","P","Q","R","S","T","U","V","W","X","Y","Z">>
Range(s) == {s[i] : i \in DOMAIN s}

\* the character U+0130 (capital I with dot above), a letter whose lower
\* case is two characters, "i" and U+0307 (combining dot above), which is no
\* letter
DottedI == "U+0130"
CombiningDot == "U+0307"

\* str.isalnum() of one character
IsAlnum(c) ==
  c \in Range(LowerCase) \cup Range(UpperCase)
        \cup {"0","1","2","3","4","5","6","7","8","9"} \cup {DottedI}

\* str.lower() of one character whose lower case is one character
LowerChar(c) ==
  IF c \in Range(UpperCase)
  THEN LowerCase[CHOOSE i \in DOMAIN UpperCase : UpperCase[i] = c]
  ELSE c

\* str.lower() of one character
LowerOf(c) == IF c = DottedI THEN <<"i", CombiningDot>> ELSE <<LowerChar(c)>>

\* str.lower() of a string, character by character
RECURSIVE LowerEach(_)
LowerEach(s) == IF s = <<>> THEN <<>> ELSE LowerOf(s[1]) \o LowerEach(Tail(s))

\* str.lower()
Lower(s) ==
  IF DottedI \in Range(s) THEN LowerEach(s) ELSE [i \in DOMAIN s |-> LowerChar(s[i])]

\* s[lo..hi] as a string (empty when lo > hi)
Slice(s, lo, hi) == SubSeq(s, lo, hi)

\* str.strip(chars): drop the leading and trailing characters that are in chars
StripSet(s, chars) ==
  LET keep == {i \in DOMAIN s : s[i] \notin chars}
  IN IF keep = {} THEN <<>>
     ELSE Slice(s, CHOOSE i \in keep : \A j \in keep : i <= j,
                   CHOOSE i \in keep : \A j \in keep : i >= j)

\* str.strip()
Strip(s) == StripSet(s, {" ", "\t", "\n"})

\* needle in hay (Python substring test; the empty string is in every string)
Contains(hay, needle) ==
  \E i \in 1..(Len(hay) - Len(needle) + 1) :
     Slice(hay, i, i + Len(needle) - 1) = needle

\* code point order of the characters of profile keys and names
AsciiOrder == <<" ","-",".","/","0","1","2","3","4","5","6","7","8","9">>
              \o UpperCase \o <<"_">> \o LowerCase
CharCode(c) == CHOOSE i \in DOMAIN AsciiOrder : AsciiOrder[i] = c

\* s < t in Python's string order
StrLess(s, t) ==
  \E i \in 1..(Len(s) + 1) :
     /\ i <= Len(t)
     /\ Slice(s, 1, i - 1) = Slice(t, 1, i - 1)
     /\ \/ i = Len(s) + 1
        \/ CharCode(s[i]) < CharCode(t[i])

\* the elements of a finite set of strings as a sequence in sorted order
RECURSIVE SortedSeq(_)
SortedSeq(S) ==
  IF S = {} THEN <<>>
  ELSE LET m == CHOOSE x \in S : \A y \in S \ {x} : StrLess(x, y)
       IN <<m>> \o SortedSeq(S \ {m})

(***************************************************************************)
(* generate.py: normalize_app_key                                          *)
(***************************************************************************)
\* "".join(char.lower() if char.isalnum() else "-" for char in raw_name)
RECURSIVE MapKeyEach(_)
MapKeyEach(s) ==
  IF s = <<>> THEN <<>>
  ELSE (IF IsAlnum(s[1]) THEN LowerOf(s[1]) ELSE <<"-">>) \o MapKeyEach(Tail(s))

MapKeyChars(s) ==
  IF DottedI \in Range(s) THEN MapKeyEach(s)
  ELSE [i \in DOMAIN s |-> IF IsAlnum(s[i]) THEN LowerChar(s[i]) ELSE "-"]

\* key.replace("--", "-"): one left-to-right pass over non-overlapping pairs
RECURSIVE ReplaceDoubleHyphen(_)
ReplaceDoubleHyphen(s) ==
  IF Len(s) < 2 THEN s
  ELSE IF s[1] = "-" /\ s[2] = "-"
       THEN <<"-">> \o ReplaceDoubleHyphen(Slice(s, 3, Len(s)))
       ELSE <<s[1]>> \o ReplaceDoubleHyphen(Tail(s))

\* while "--" in key: key = key.replace("--", "-")
RECURSIVE CollapseHyphens(_)
CollapseHyphens(s) ==
  IF Contains(s, <<"-","-">>) THEN CollapseHyphens(ReplaceDoubleHyphen(s)) ELSE s

UnknownApp == <<"u","n","k","n","o","w","n","-","a","p","p">>

normalize_app_key(raw_name) ==
  LET key == CollapseHyphens(StripSet(MapKeyChars(raw_name), {"-"}))
  IN IF key = <<>> THEN UnknownApp ELSE key

(***************************************************************************)
(* Paths (pathlib.Path on POSIX).  A path's text is a string; its parts    *)
(* are the sequence of its components.  All paths of the model are         *)
(* absolute.                                                               *)
(***************************************************************************)
\* Path(text).parts without the leading "/": split at "/", dropping empty
\* components and "." components
RECURSIVE SplitPath(_, _)
SplitPath(text, cur) ==
  IF text = <<>>
  THEN IF cur = <<>> \/ cur = <<".">> THEN <<>> ELSE <<cur>>
  ELSE IF text[1] = "/"
       THEN (IF cur = <<>> \/ cur = <<".">> THEN <<>> ELSE <<cur>>)
            \o SplitPath(Tail(text), <<>>)
       ELSE SplitPath(Tail(text), Append(cur, text[1]))

ParsePath(text) == SplitPath(text, <<>>)

\* str(path)
RECURSIVE PathStr(_)
PathStr(parts) ==
  IF parts = <<>> THEN <<>>
  ELSE <<"/">> \o parts[1] \o PathStr(Tail(parts))

\* path / name
Join(parts, name) == Append(parts, name)

DotDot == <<".",".">>

\* Path.resolve(): ".." steps back to the parent (the model has no symlinks)
RECURSIVE ResolveFrom(_, _)
ResolveFrom(done, rest) ==
  IF rest = <<>> THEN done
  ELSE IF rest[1] = DotDot
       THEN ResolveFrom(IF done = <<>> THEN <<>> ELSE Slice(done, 1, Len(done) - 1),
                        Tail(rest))
       ELSE ResolveFrom(Append(done, rest[1]), Tail(rest))

Resolve(parts) == ResolveFrom(<<>>, parts)

\* a is p or an ancestor of p, component by component
IsPrefix(a, p) == Len(a) <= Len(p) /\ Slice(p, 1, Len(a)) = a

\* Path(text).name: the last component ("" when there is none)
PathName(text) ==
  LET parts == ParsePath(text)
  IN IF parts = <<>> THEN <<>> ELSE parts[Len(parts)]

\* Path(text).stem: the name without its last suffix
Stem(text) ==
  LET name == PathName(text)
      dots == {i \in DOMAIN name : name[i] = "."}
      last == CHOOSE i \in dots : \A j \in dots : i >= j
  IN IF dots # {} /\ 1 < last /\ last < Len(name)
     THEN Slice(name, 1, last - 1)
     ELSE name

(***************************************************************************)
(* detect.py: AppEntry and match_app                                       *)
(***************************************************************************)
AppEntry(desktop_id, name, generic_name, icon, exec_cmd, desktop_file, keywords) ==
  [desktop_id |-> desktop_id, name |-> name, generic_name |-> generic_name,
   icon |-> icon, exec_cmd |-> exec_cmd, desktop_file |-> desktop_file,
   keywords |-> keywords]

\* stands for "no application" where the code holds None
NoApp == AppEntry(<<>>, <<>>, <<>>, <<>>, <<>>, <<>>, <<>>)

\* AppEntry.aliases: the non-empty strings among identity, identity stem,
\* names, icon and keywords
aliases(app) ==
  ({app.desktop_id, Stem(app.desktop_id), app.name, app.generic_name, app.icon}
     \cup Range(app.keywords)) \ {<<>>}


\* difflib: the length of the common run of a[i:] and b[j:] (0-based, half-open)
RECURSIVE RunLen(_, _, _, _, _, _)
RunLen(a, b, i, j, ahi, bhi) ==
  IF i < ahi /\ j < bhi /\ a[i + 1] = b[j + 1]
  THEN 1 + RunLen(a, b, i + 1, j + 1, ahi, bhi)
  ELSE 0

\* of the longest blocks, the one starting earliest in a, of those the one
\* starting earliest in b
FirstLongest(a, b, ahi, bhi, top) ==
  LET first == CHOOSE p \in top :
                 \A q \in top : p[1] < q[1] \/ (p[1] = q[1] /\ p[2] <= q[2])
  IN [i |-> first[1], j |-> first[2],
      size |-> RunLen(a, b, first[1], first[2], ahi, bhi)]

\* difflib.SequenceMatcher.find_longest_match without junk
find_longest_match(a, b, alo, ahi, blo, bhi) ==
  LET cands == (alo..(ahi - 1)) \X (blo..(bhi - 1))
  IN IF \A p \in cands : RunLen(a, b, p[1], p[2], ahi, bhi) = 0
     THEN [i |-> alo, j |-> blo, size |-> 0]
     ELSE FirstLongest(a, b, ahi, bhi,
            {p \in cands : \A q \in cands :
               RunLen(a, b, p[1], p[2], ahi, bhi) >= RunLen(a, b, q[1], q[2], ahi, bhi)})

\* difflib.SequenceMatcher.get_matching_blocks: the total size of the blocks,
\* found by splitting at the longest block m and recursing on both sides
RECURSIVE MatchedSize(_, _, _, _, _, _)
RECURSIVE MatchedAround(_, _, _, _, _, _, _)
MatchedAround(a, b, alo, ahi, blo, bhi, m) ==
  IF m.size = 0 THEN 0
  ELSE m.size
       + MatchedSize(a, b, alo, m.i, blo, m.j)
       + MatchedSize(a, b, m.i + m.size, ahi, m.j + m.size, bhi)

MatchedSize(a, b, alo, ahi, blo, bhi) ==
  MatchedAround(a, b, alo, ahi, blo, bhi, find_longest_match(a, b, alo, ahi, blo, bhi))

\* SequenceMatcher(None, a, b).ratio() = 2*M/T as the fraction <<2*M, T>>
\* (<<1, 1>> when both strings are empty)
ratio(a, b) ==
  IF Len(a) + Len(b) = 0 THEN <<1, 1>>
  ELSE <<2 * MatchedSize(a, b, 0, Len(a), 0, Len(b)), Len(a) + Len(b)>>

FracLess(x, y) == x[1] * y[2] < y[1] * x[2]

\* min_score = 0.45 as a fraction
min_score == <<45, 100>>

\* max(...) of a non-empty set of fractions
MaxFrac(scores) == CHOOSE s \in scores : \A t \in scores : ~FracLess(s, t)

\* max(ratio(query, alias.lower()) for alias in app.aliases)
BestAliasScore(app_name_norm, app) ==
  MaxFrac({ratio(app_name_norm, Lower(al)) : al \in aliases(app)})

\* one pass of a fuzzy loop in which an equal score replaces best as well
BetterOrEqual(best, score, app) ==
  IF best.none \/ ~FracLess(score, best.score)
  THEN [none |-> FALSE, score |-> score, app |-> app]
  ELSE best

\* one pass of the fuzzy loop: best is replaced only by a strictly greater
\* score, so the first application with the greatest score wins
BetterOf(best, score, app) ==
  IF best.none \/ FracLess(best.score, score)
  THEN [none |-> FALSE, score |-> score, app |-> app]
  ELSE best

RECURSIVE FuzzyBest(_, _, _, _)
FuzzyBest(app_name_norm, app_list, k, best) ==
  IF k > Len(app_list) THEN best
  ELSE FuzzyBest(app_name_norm, app_list, k + 1,
                 BetterOf(best, BestAliasScore(app_name_norm, app_list[k]), app_list[k]))

\* what match_app returns: raised is "" when an application is returned, else
\* the ValueError's message
MatchResult(raised, app) == [raised |-> raised, app |-> app]

HasExactAlias(app_name_norm, app) ==
  \E al \in aliases(app) : Lower(al) = app_name_norm

HasContainingAlias(app_name_norm, app) ==
  \E al \in aliases(app) :
     Contains(Lower(al), app_name_norm) \/ Contains(app_name_norm, Lower(al))

\* match_app from "assert best is not None" on
match_best(best) ==
  IF FracLess(best.score, min_score)
  THEN MatchResult("No likely app match", NoApp)
  ELSE MatchResult("", best.app)

\* match_app's fuzzy ranking over app_list; max() of an application without
\* aliases raises ValueError
match_fuzzy(app_name_norm, app_list) ==
  IF \E k \in DOMAIN app_list : aliases(app_list[k]) = {}
  THEN MatchResult("max() arg is an empty sequence", NoApp)
  ELSE match_best(FuzzyBest(app_name_norm, app_list, 1,
                            [none |-> TRUE, score |-> <<0, 1>>, app |-> NoApp]))

\* match_app ranking the whole list when several applications contain the
\* query
match_contains_unrestricted(app_name_norm, app_list, contains) ==
  IF Len(contains) = 1 THEN MatchResult("", contains[1])
  ELSE match_fuzzy(app_name_norm, app_list)

\* match_app once the containing matches are collected
match_contains(app_name_norm, app_list, contains) ==
  IF Len(contains) = 1 THEN MatchResult("", contains[1])
  ELSE match_fuzzy(app_name_norm, IF contains # <<>> THEN contains ELSE app_list)

\* match_app --exact returning the last application with an equal alias
match_exact_last(exacts) ==
  IF exacts # <<>> THEN MatchResult("", exacts[Len(exacts)])
  ELSE MatchResult("No exact app match", NoApp)

\* match_app --exact: the first application with an equal alias
match_exact(exacts) ==
  IF exacts # <<>> THEN MatchResult("", exacts[1])
  ELSE MatchResult("No exact app match", NoApp)

\* match_app testing the list before the name
match_list_first(app_name_norm, app_list, exact) ==
  IF app_list = <<>> THEN MatchResult("No desktop apps detected.", NoApp)
  ELSE IF app_name_norm = <<>> THEN MatchResult("App name cannot be empty.", NoApp)
  ELSE IF exact
       THEN match_exact(SelectSeq(app_list, LAMBDA app : HasExactAlias(app_name_norm, app)))
       ELSE match_contains(app_name_norm, app_list,
              SelectSeq(app_list, LAMBDA app : HasContainingAlias(app_name_norm, app)))

\* match_app once the name is stripped and lower-cased
match_normalized(app_name_norm, app_list, exact) ==
  IF app_name_norm = <<>> THEN MatchResult("App name cannot be empty.", NoApp)
  ELSE IF app_list = <<>> THEN MatchResult("No desktop apps detected.", NoApp)
  ELSE IF exact
       THEN match_exact(SelectSeq(app_list, LAMBDA app : HasExactAlias(app_name_norm, app)))
       ELSE match_contains(app_name_norm, app_list,
              SelectSeq(app_list, LAMBDA app : HasContainingAlias(app_name_norm, app)))

\* match_app(app_name, apps, exact)
match_app(app_name, apps, exact) ==
  match_normalized(Lower(Strip(app_name)), apps, exact)

(***************************************************************************)
(* state.py: StateStore.  The state file's content is modelled by the      *)
(* cases load() tells apart: kind is what the file is (missing, unreadable,*)
(* not UTF-8, not JSON, a JSON value that is no object, or an object);     *)
(* for an object, extra holds its top-level keys other than "profiles",    *)
(* pkind what its "profiles" entry is (absent, a dict, null, the empty     *)
(* list, a number), map the entry's key -> record mapping and order the    *)
(* keys of map in the order the file holds them, which is the order a      *)
(* mapping read back iterates in.  save() writes the keys sorted.          *)
(***************************************************************************)
EmptyMap == [k \in {} |-> <<>>]

\* a file whose "profiles" keys are in sorted order, as save() writes them
FileContent(kind, extra, pkind, map) ==
  [kind |-> kind, extra |-> extra, pkind |-> pkind, map |-> map,
   order |-> SortedSeq(DOMAIN map)]

\* the file with its "profiles" keys in another order (a file that save()
\* did not write)
FileInOrder(file, order) == [file EXCEPT !.order = order]

\* the orders a file can hold the keys S in
Orders(S) == {o \in [1..Cardinality(S) -> S] : Range(o) = S}

MissingFile == FileContent("missing", {}, "absent", EmptyMap)

\* a record as _record_payload builds it; end4_json_path is "" when the key
\* is not in the record
ProfileRecord(name, desktop_id, output_dir, source_image, end4_json_path) ==
  [name |-> name, desktop_id |-> desktop_id, output_dir |-> output_dir,
   source_image |-> source_image, end4_json_path |-> end4_json_path]

\* stands for None where a record is expected
NoRecord == ProfileRecord(<<>>, <<>>, <<>>, <<>>, <<>>)

\* the document in memory: {"profiles": ..., and the extra keys}
\* order is the insertion order of the "profiles" dict
Document(extra, pkind, map, order) ==
  [extra |-> extra, pkind |-> pkind, map |-> map, order |-> order]

FreshDocument == Document({}, "dict", EmptyMap, <<>>)

\* StateStore.load: raised is "" or the exception that escapes (read_text
\* raises UnicodeDecodeError, which load does not catch); setdefault puts an
\* empty mapping only where the object has no "profiles" key
load(file) ==
  IF file.kind = "missing" THEN [raised |-> "", doc |-> FreshDocument]
  ELSE IF file.kind = "badutf8"
       THEN [raised |-> "UnicodeDecodeError", doc |-> FreshDocument]
  ELSE IF file.kind \in {"unreadable", "notjson"}
       THEN [raised |-> "", doc |-> FreshDocument]
  ELSE IF file.kind # "object" THEN [raised |-> "", doc |-> FreshDocument]
  ELSE [raised |-> "",
        doc |-> Document(file.extra,
                         IF file.pkind = "absent" THEN "dict" ELSE file.pkind,
                         file.map, file.order)]

\* a save that writes the "profiles" entry alone
save_profiles_only(doc) == FileContent("object", {}, doc.pkind, doc.map)

\* StateStore.save in one process: the temporary file is written, its keys
\* sorted (sort_keys=True), and then replaces the state file
save(doc) == FileContent("object", doc.extra, doc.pkind, doc.map)

MapSet(map, key, value) ==
  [k \in DOMAIN map \cup {key} |-> IF k = key THEN value ELSE map[k]]

MapPop(map, key) == [k \in DOMAIN map \ {key} |-> map[k]]

\* the insertion order of a dict after d[key] = value and after
\* d.pop(key, None)
OrderSet(order, key) == IF key \in Range(order) THEN order ELSE Append(order, key)
OrderPop(order, key) == SelectSeq(order, LAMBDA k : k # key)

\* what a store operation did: the exception it raised ("" for none), the
\* state file afterwards, and the record it returned (found is FALSE for None)
StoreResult(raised, file, found, value) ==
  [raised |-> raised, file |-> file, found |-> found, value |-> value]

\* StateStore.record_profile
record_profile(file, app_key, record) ==
  LET l == load(file)
  IN IF l.raised # "" THEN StoreResult(l.raised, file, FALSE, NoRecord)
     ELSE IF l.doc.pkind # "dict" THEN StoreResult("TypeError", file, FALSE, NoRecord)
     ELSE StoreResult("",
            save(Document(l.doc.extra, "dict", MapSet(l.doc.map, app_key, record),
                          OrderSet(l.doc.order, app_key))),
            FALSE, NoRecord)

\* StateStore.remove_profile: found/value are the removed record, if any
remove_profile(file, app_key) ==
  LET l == load(file)
  IN IF l.raised # "" THEN StoreResult(l.raised, file, FALSE, NoRecord)
     ELSE IF l.doc.pkind = "list" THEN StoreResult("TypeError", file, FALSE, NoRecord)
     ELSE IF l.doc.pkind # "dict"
          THEN StoreResult("AttributeError", file, FALSE, NoRecord)
     ELSE StoreResult("",
            save(Document(l.doc.extra, "dict", MapPop(l.doc.map, app_key),
                          OrderPop(l.doc.order, app_key))),
            app_key \in DOMAIN l.doc.map,
            IF app_key \in DOMAIN l.doc.map THEN l.doc.map[app_key] ELSE NoRecord)

\* StateStore.all_profiles: dict(profiles), which keeps the order of
\* profiles; dict([]) is the empty mapping
all_profiles(file) ==
  LET l == load(file)
  IN IF l.raised # "" THEN [raised |-> l.raised, map |-> EmptyMap, order |-> <<>>]
     ELSE IF l.doc.pkind = "list" THEN [raised |-> "", map |-> EmptyMap, order |-> <<>>]
     ELSE IF l.doc.pkind # "dict"
          THEN [raised |-> "TypeError", map |-> EmptyMap, order |-> <<>>]
     ELSE [raised |-> "", map |-> l.doc.map, order |-> l.doc.order]

\* StateStore.get_profile
get_profile(file, app_key) ==
  LET l == load(file)
  IN IF l.raised # "" THEN StoreResult(l.raised, file, FALSE, NoRecord)
     ELSE IF l.doc.pkind # "dict"
          THEN StoreResult("AttributeError", file, FALSE, NoRecord)
     ELSE IF app_key \in DOMAIN l.doc.map
          THEN StoreResult("", file, TRUE, l.doc.map[app_key])
          ELSE StoreResult("", file, FALSE, NoRecord)

\* what find_profile_key returns: found is FALSE for None
KeyResult(raised, found, key) == [raised |-> raised, found |-> found, key |-> key]

\* find_profile_key's test of one record against the query
ProfileMatches(query_norm, name, desktop_id) ==
  \/ query_norm = name
  \/ query_norm = desktop_id
  \/ Contains(name, query_norm)
  \/ Contains(desktop_id, query_norm)

\* the loop of find_profile_key: the first key, in iteration order, whose
\* record's name or desktop_id equals or contains the query
RECURSIVE ScanProfiles(_, _, _)
ScanProfiles(query_norm, map, keys) ==
  IF keys = <<>> THEN KeyResult("", FALSE, <<>>)
  ELSE IF ProfileMatches(query_norm, Lower(map[keys[1]].name),
                         Lower(map[keys[1]].desktop_id))
       THEN KeyResult("", TRUE, keys[1])
       ELSE ScanProfiles(query_norm, map, Tail(keys))

\* find_profile_key once the profiles are read
find_in_profiles(query_norm, all) ==
  IF all.raised # "" THEN KeyResult(all.raised, FALSE, <<>>)
  ELSE IF query_norm \in DOMAIN all.map THEN KeyResult("", TRUE, query_norm)
  ELSE ScanProfiles(query_norm, all.map, all.order)

\* find_profile_key once the query is stripped and lower-cased
find_normalized(file, query_norm) ==
  IF query_norm = <<>> THEN KeyResult("", FALSE, <<>>)
  ELSE find_in_profiles(query_norm, all_profiles(file))

\* find_profile_key comparing the query as typed
find_profile_key_as_typed(file, query) == find_normalized(file, Strip(query))

\* StateStore.find_profile_key
find_profile_key(file, query) == find_normalized(file, Lower(Strip(query)))

(***************************************************************************)
(* The filesystem: the set of the existing paths (as resolved parts); an   *)
(* existing path's ancestors exist.  "/" always exists.                    *)
(***************************************************************************)
None == <<>>
Some(x) == <<x>>

Prefixes(parts) == {Slice(parts, 1, i) : i \in 1..Len(parts)}

\* Path.exists(): every step of the path, ".." included, leads to an
\* existing path
Exists(fsys, parts) == \A q \in Prefixes(parts) : Resolve(q) \in fsys \cup {<<>>}

\* Path(text).exists(); Path("") is Path("."), the working directory
ExistsText(fsys, text) == Exists(fsys, ParsePath(text))

\* Path.mkdir(parents=True, exist_ok=True)
Mkdir(fsys, parts) == fsys \cup Prefixes(Resolve(parts))

\* shutil.rmtree(path): the directory and everything below it
Rmtree(fsys, parts) == {q \in fsys : ~IsPrefix(Resolve(parts), q)}

\* Path.rmdir(): only an empty directory is removed (else OSError)
IsEmptyDir(fsys, parts) ==
  /\ parts \in fsys
  /\ \A q \in fsys : ~(IsPrefix(parts, q) /\ q # parts)

Parent(parts) == IF parts = <<>> THEN <<>> ELSE Slice(parts, 1, Len(parts) - 1)

(***************************************************************************)
(* generate.py                                                             *)
(***************************************************************************)
\* the names of the directories and files the code works with; the home
\* directory (Path.home()) is /h
Word == [h |-> <<"h">>,
         config |-> <<".","c","o","n","f","i","g">>,
         matugenium |-> <<"m","a","t","u","g","e","n","i","u","m">>,
         generated |-> <<"g","e","n","e","r","a","t","e","d">>,
         end4 |-> <<"e","n","d","-","4">>,
         apps |-> <<"a","p","p","s">>,
         colors |-> <<"c","o","l","o","r","s",".","j","s","o","n">>,
         local |-> <<".","l","o","c","a","l">>,
         share |-> <<"s","h","a","r","e">>,
         icons |-> <<"i","c","o","n","s">>,
         dot_icons |-> <<".","i","c","o","n","s">>,
         usr |-> <<"u","s","r">>,
         pixmaps |-> <<"p","i","x","m","a","p","s">>]

\* _default_output_dir with MATUGENIUM_OUTPUT_DIR unset
default_output_dir == <<Word.h, Word.config, Word.matugenium, Word.generated>>

\* _default_end4_dir with MATUGENIUM_END4_DIR unset
default_end4_dir(fsys) ==
  IF Exists(fsys, <<Word.h, Word.config, Word.end4>>)
  THEN Some(<<Word.h, Word.config, Word.end4>>)
  ELSE None

icon_extensions == <<<<".","p","n","g">>, <<".","s","v","g">>, <<".","j","p","g">>,
                     <<".","j","p","e","g">>, <<".","w","e","b","p">>>>

icon_dirs == << <<Word.h, Word.local, Word.share, Word.icons>>, <<Word.h, Word.dot_icons>>,
                <<Word.usr, Word.share, Word.icons>>, <<Word.usr, Word.share, Word.pixmaps>> >>

\* the candidates of resolve_icon_source in probing order, as <<dir, ext>>
IconProbes ==
  [n \in 1..(Len(icon_dirs) * Len(icon_extensions)) |->
     <<icon_dirs[((n - 1) \div Len(icon_extensions)) + 1],
       icon_extensions[((n - 1) % Len(icon_extensions)) + 1]>>]

\* the candidate of probe n for icon_name
IconCandidate(icon_name, n) == Join(IconProbes[n][1], icon_name \o IconProbes[n][2])

\* the first candidate that exists, "" when there is none
FirstIcon(icon_name, hits) ==
  IF hits = {} THEN <<>>
  ELSE PathStr(IconCandidate(icon_name, CHOOSE n \in hits : \A m \in hits : n <= m))

\* resolve_icon_source: "" when nothing is found
resolve_icon_source(fsys, icon_name) ==
  IF icon_name = <<>> THEN <<>>
  ELSE IF ExistsText(fsys, icon_name) THEN icon_name
  ELSE FirstIcon(icon_name,
         {n \in DOMAIN IconProbes :
            Exists(fsys, IconProbes[n][1]) /\ Exists(fsys, IconCandidate(icon_name, n))})

\* _safe_within(parent, child): child.resolve().relative_to(parent.resolve())
safe_within(parent, child) == IsPrefix(Resolve(parent), Resolve(child))

\* what generate_for_app returns or raises (raised is "" when it returns),
\* the filesystem it leaves and the number of times it ran the palette tool
GenerationResult(raised, app_key, output_dir, source_image, end4_json_path, fsys, invoked) ==
  [raised |-> raised, app_key |-> app_key, output_dir |-> output_dir,
   source_image |-> source_image, end4_json_path |-> end4_json_path,
   fs |-> fsys, invoked |-> invoked]

GenerationError(message, fsys, invoked) ==
  GenerationResult(message, <<>>, <<>>, <<>>, None, fsys, invoked)

\* the palette tool as the environment provides it: whether "matugen" is in
\* PATH, its exit status, and whether a run leaves colors.json in its
\* working directory
Tool(avail, exit, writes) == [avail |-> avail, exit |-> exit, writes |-> writes]

\* app.desktop_id or app.name
IdentityOrName(app) == IF app.desktop_id # <<>> THEN app.desktop_id ELSE app.name

\* source_image: the icon, else the fallback image when one is given, else ""
SourceImage(icon_source, fallback_image) ==
  IF icon_source # <<>> THEN icon_source
  ELSE IF fallback_image # None /\ fallback_image[1] # <<>>
       THEN PathStr(ParsePath(fallback_image[1]))
       ELSE <<>>

\* shutil.copy2(colors_json_path, end4_target) when colors.json exists
CopyColors(fsys, colors_json_path, end4_target) ==
  IF Exists(fsys, colors_json_path) THEN fsys \cup {Resolve(end4_target)} ELSE fsys

\* generate_for_app from the containment check of the mirror target on
generate_copy(app_key, output_dir, source_image, end4_base, end4_target, fsys) ==
  IF ~safe_within(end4_base, end4_target)
  THEN GenerationError("Computed End-4 output path is unsafe.", fsys, 1)
  ELSE GenerationResult("", app_key, output_dir, source_image, Some(end4_target),
         CopyColors(Mkdir(fsys, Parent(end4_target)), Join(output_dir, Word.colors),
                    end4_target),
         1)

\* generate_for_app from "if end4_base" on
generate_end4(app_key, output_dir, source_image, end4_base, fsys) ==
  IF end4_base = None
  THEN GenerationResult("", app_key, output_dir, source_image, None, fsys, 1)
  ELSE generate_copy(app_key, output_dir, source_image, end4_base[1],
         Join(Join(Join(Join(end4_base[1], Word.matugenium), Word.apps), app_key), Word.colors),
         fsys)

\* generate_for_app from subprocess.run on; fsys has the output directory
generate_run(app_key, output_dir, source_image, end4_dir, fsys, tool) ==
  IF tool.exit # 0 THEN GenerationError("CalledProcessError", fsys, 1)
  ELSE IF tool.writes
       THEN generate_end4(app_key, output_dir, source_image,
              IF end4_dir # None THEN end4_dir
              ELSE default_end4_dir(fsys \cup {Resolve(Join(output_dir, Word.colors))}),
              fsys \cup {Resolve(Join(output_dir, Word.colors))})
       ELSE generate_end4(app_key, output_dir, source_image,
              IF end4_dir # None THEN end4_dir ELSE default_end4_dir(fsys), fsys)

\* generate_for_app from the check of the source image on
generate_from(app_key, output_dir, source_image, end4_dir, dry_run, fsys, tool) ==
  IF ~ExistsText(fsys, source_image)
  THEN GenerationError("Could not resolve a valid icon/image source.", fsys, 0)
  ELSE IF dry_run
       THEN GenerationResult("", app_key, output_dir, source_image, None, fsys, 0)
       ELSE generate_run(app_key, output_dir, source_image, end4_dir,
                         Mkdir(fsys, output_dir), tool)

\* generate_for_app keying the result by the application's name alone
generate_keyed_by_name(app, app_key, output_root, end4_dir, fallback_image, dry_run, fsys, tool) ==
  generate_from(normalize_app_key(app.name),
                Join(IF output_root # None THEN output_root[1] ELSE default_output_dir,
                     normalize_app_key(app.name)),
                SourceImage(resolve_icon_source(fsys, app.icon), fallback_image),
                end4_dir, dry_run, fsys, tool)

\* generate_for_app once the key is computed
generate_keyed(app, app_key, output_root, end4_dir, fallback_image, dry_run, fsys, tool) ==
  generate_from(app_key,
                Join(IF output_root # None THEN output_root[1] ELSE default_output_dir,
                     app_key),
                SourceImage(resolve_icon_source(fsys, app.icon), fallback_image),
                end4_dir, dry_run, fsys, tool)

\* generate_for_app(app, output_root, end4_dir, fallback_image, dry_run)
generate_for_app(app, output_root, end4_dir, fallback_image, dry_run, fsys, tool) ==
  IF ~tool.avail THEN GenerationError("matugen command not found in PATH.", fsys, 0)
  ELSE generate_keyed(app, normalize_app_key(IdentityOrName(app)), output_root,
                      end4_dir, fallback_image, dry_run, fsys, tool)

\* the parameters generate_for_app declares
GenerateParams == {"app", "output_root", "end4_dir", "fallback_image", "dry_run"}

\* the keyword arguments cli.main passes to generate_for_app, at both of its
\* call sites
CliKeywords == {"output_root", "end4_dir", "fallback_image", "dry_run", "verbose"}

\* the call as Python binds it: a keyword the function does not declare makes
\* the call raise TypeError before the function's body runs
call_generate_for_app(app, output_root, end4_dir, fallback_image, dry_run, fsys, tool) ==
  IF ~(CliKeywords \subseteq GenerateParams)
  THEN GenerationError("TypeError: unexpected keyword argument", fsys, 0)
  ELSE generate_for_app(app, output_root, end4_dir, fallback_image, dry_run, fsys, tool)

\* ungen_app_path(path, dry_run, managed_root)
ungen_app_path(path, dry_run, managed_root, fsys) ==
  IF ~Exists(fsys, path) THEN [raised |-> "", fs |-> fsys]
  ELSE IF managed_root # None /\ ~safe_within(managed_root[1], path)
       THEN [raised |-> "Refusing to remove unmanaged path", fs |-> fsys]
  ELSE IF ~dry_run THEN [raised |-> "", fs |-> Rmtree(fsys, path)]
  ELSE [raised |-> "", fs |-> fsys]

(***************************************************************************)
(* The machine the command runs on.                                        *)
(***************************************************************************)
\* the longest list of applications discovery returns
MaxApps == 2

AppFiles == AppEntry(<<"N","a","u",".","d">>, <<"F","i","l","e","s">>, <<>>,
                     <<"n","a","u">>, <<"n","a","u">>,
                     <<"/","a","/","N","a","u",".","d">>, <<<<"f","i","l","e">>>>)
AppKonsole == AppEntry(<<"k","o","n",".","d">>, <<"K","o","n">>, <<"T","e","r","m">>,
                       <<>>, <<"k","o","n">>,
                       <<"/","a","/","k","o","n",".","d">>, <<>>)
AppWeb == AppEntry(<<"N","A","U",".","d">>, <<"W","e","b">>, <<>>, <<>>,
                   <<"w","e","b">>, <<"/","a","/","N","A","U",".","d">>, <<>>)

\* an application whose name contains the name of AppFiles and whose key
\* sorts before the key of AppFiles
AppFinder == AppEntry(<<"f","m",".","d">>, <<"x","F","i","l","e","s">>, <<>>, <<>>,
                      <<"f","m">>, <<"/","a","/","f","m",".","d">>, <<>>)

\* an application whose name is the key of AppKonsole
AppAlias == AppEntry(<<"a","l",".","d">>, <<"k","o","n","-","d">>, <<>>, <<>>,
                     <<"a","l">>, <<"/","a","/","a","l",".","d">>, <<>>)

\* the applications that can be installed, in discover_apps' order (sorted
\* by lower-cased name, one entry per desktop_id)
AllApps == <<AppFiles, AppKonsole, AppWeb>>

\* the entries of AllApps whose index is in S, in order
RECURSIVE PickApps(_, _)
PickApps(S, k) ==
  IF k > Len(AllApps) THEN <<>>
  ELSE (IF k \in S THEN <<AllApps[k]>> ELSE <<>>) \o PickApps(S, k + 1)

\* what discover_apps() can return on the machines of the model
AppLists ==
  {PickApps(S, 1) : S \in {T \in SUBSET DOMAIN AllApps : Cardinality(T) <= MaxApps}}

\* --output-dir values: not given, or /r
RootR == <<<<"r">>>>
OutputDirs == {None, Some(RootR)}

IconNau == <<Word.usr, Word.share, Word.pixmaps, <<"n","a","u",".","p","n","g">>>>
ImageGood == <<Word.h, <<"i",".","p","n","g">>>>
ImageBad == <<Word.h, <<"n","o",".","p","n","g">>>>

\* --image values: not given, an existing image, a missing one
Images == {None, Some(PathStr(ImageGood)), Some(PathStr(ImageBad))}

\* files that exist on every machine of the model: the icon of AppFiles, one
\* image and the directory /r
BaseFs == Prefixes(IconNau) \cup Prefixes(ImageGood) \cup Prefixes(RootR)

\* the palette tool: not installed, failing, or succeeding
Tools == {Tool(FALSE, 0, FALSE), Tool(TRUE, 1, FALSE), Tool(TRUE, 0, TRUE)}

\* the names given on the command line
Queries ==
  {<<"F","i","l","e","s">>, <<"n","a","u">>, <<"k","o","n","-","d">>, <<"z","z">>,
   <<"T","e","r","m">>}

\* match_app on the model's inputs, computed once per input
MatchTable ==
  [x \in Queries \X (AppLists \ {<<>>}) \X BOOLEAN |-> match_app(x[1], x[2], x[3])]
  @@ <<>>

\* match_app(app_name, app_list, exact), looked up
Match(app_name, app_list, exact) == MatchTable[<<app_name, app_list, exact>>]

(***************************************************************************)
(* cli.py                                                                  *)
(***************************************************************************)
\* _record_payload: end4_json_path is kept only when end4_path is given
record_payload(app_name, desktop_id, output_dir, source_image, end4_path) ==
  ProfileRecord(app_name, desktop_id, PathStr(output_dir), source_image,
                IF end4_path # None THEN PathStr(end4_path[1]) ELSE <<>>)

\* end4_path.parent.rmdir(); end4_path.parent.parent.rmdir() inside one try:
\* the second is tried only when the first removed its directory
RmdirParents(fsys, d1, d2) ==
  IF ~IsEmptyDir(fsys, d1) THEN fsys
  ELSE IF IsEmptyDir(fsys \ {d1}, d2) THEN fsys \ {d1, d2}
  ELSE fsys \ {d1}

\* end4_path.unlink() and the rmdir calls after it
UnlinkEnd4(fsys, end4_path) ==
  RmdirParents(fsys \ {Resolve(end4_path)}, Resolve(Parent(end4_path)),
               Resolve(Parent(Parent(end4_path))))

\* what a removal did: the exception it raised ("" for none) and the
\* filesystem it leaves
RemovalResult(raised, fsys) == [raised |-> raised, fs |-> fsys]

\* _remove_tracked_paths from "end4_json = ..." on; u is what the removal of
\* the output directory did
remove_end4(record, dry_run, u) ==
  IF u.raised # "" THEN u
  ELSE IF /\ record.end4_json_path # <<>>
          /\ ExistsText(u.fs, record.end4_json_path)
          /\ ~dry_run
       THEN RemovalResult("", UnlinkEnd4(u.fs, ParsePath(record.end4_json_path)))
       ELSE RemovalResult("", u.fs)

\* _remove_tracked_paths(record, dry_run, managed_root)
remove_tracked_paths(record, dry_run, managed_root, fsys) ==
  IF record.output_dir # <<>>
  THEN remove_end4(record, dry_run,
         ungen_app_path(ParsePath(record.output_dir), dry_run, managed_root, fsys))
  ELSE remove_end4(record, dry_run, RemovalResult("", fsys))

\* the parsed command line (argparse)
Args(action, query, exact, dry_run, force, output_dir, end4_dir, image) ==
  [action |-> action, query |-> query, exact |-> exact, dry_run |-> dry_run,
   force |-> force, output_dir |-> output_dir, end4_dir |-> end4_dir,
   image |-> image]

NoArgs == Args("", <<>>, FALSE, FALSE, FALSE, None, None, None)

\* what one invocation of main did: its exit code, how it ended, the state
\* file and filesystem it leaves, the number of palette tool runs, and the
\* profile key it worked on ("" when it got to none)
MainResult(exit, outcome, file, fsys, runs, key) ==
  [exit |-> exit, outcome |-> outcome, file |-> file, fs |-> fsys, runs |-> runs,
   key |-> key]

\* str(args.image.expanduser()) if args.image else None
FallbackImage(a) == IF a.image # None THEN Some(PathStr(ParsePath(a.image[1]))) ELSE None

\* the application --gen works on: the match, or with no application
\* discovered an entry made from the query
GenTarget(a, app_list) ==
  IF app_list # <<>> THEN Match(a.query, app_list, a.exact)
  ELSE MatchResult("", AppEntry(a.query, a.query, <<>>, <<>>, <<>>, <<>>, <<>>))

\* --gen after the try block: the record is written (cli.py 154-166)
gen_record(app_key, g, rec, file) ==
  IF rec.raised # "" THEN MainResult(1, "uncaught", file, g.fs, g.invoked, app_key)
  ELSE MainResult(0, "recorded", rec.file, g.fs, g.invoked, app_key)

\* gen_generated with the record written before the failure is looked at: the
\* state file changes although generation failed
gen_generated_records_failure(app, app_key, g, file) ==
  IF g.raised # ""
  THEN MainResult(2, "generate_error",
         record_profile(file, app_key,
           record_payload(app.name, app.desktop_id, g.output_dir, g.source_image,
                          g.end4_json_path)).file,
         g.fs, g.invoked, app_key)
  ELSE gen_record(app_key, g,
         record_profile(file, g.app_key,
           record_payload(app.name, app.desktop_id, g.output_dir, g.source_image,
                          g.end4_json_path)),
         file)

\* --gen once generate_for_app has returned or raised g
gen_generated(app, app_key, g, file) ==
  IF g.raised # "" THEN MainResult(2, "generate_error", file, g.fs, g.invoked, app_key)
  ELSE gen_record(app_key, g,
         record_profile(file, g.app_key,
           record_payload(app.name, app.desktop_id, g.output_dir, g.source_image,
                          g.end4_json_path)),
         file)

\* gen_keyed without the test of the existing profile: generation is tried
\* whether or not the key is recorded
gen_keyed_always_generates(a, app, app_key, all, file, fsys, tool) ==
  IF all.raised # "" THEN MainResult(2, "state_error", file, fsys, 0, app_key)
  ELSE gen_generated(app, app_key,
         call_generate_for_app(app, a.output_dir, a.end4_dir, FallbackImage(a),
                               a.dry_run, fsys, tool),
         file)

\* --gen from the lookup of the existing profile on (cli.py 137-150); all is
\* what state.all_profiles() returned or raised.  "if existing" tests the
\* record's truth value: a record as _record_payload builds it is a non-empty
\* dict, so a key that is present holds a true value
gen_keyed(a, app, app_key, all, file, fsys, tool) ==
  IF all.raised # "" THEN MainResult(2, "state_error", file, fsys, 0, app_key)
  ELSE IF app_key \in DOMAIN all.map /\ ~a.force
       THEN MainResult(0, "skipped", file, fsys, 0, app_key)
       ELSE gen_generated(app, app_key,
              call_generate_for_app(app, a.output_dir, a.end4_dir, FallbackImage(a),
                                    a.dry_run, fsys, tool),
              file)

\* --gen once the application is matched (or matching raised)
gen_matched(a, m, file, fsys, tool) ==
  IF m.raised # "" THEN MainResult(2, "match_error", file, fsys, 0, <<>>)
  ELSE gen_keyed(a, m.app, normalize_app_key(IdentityOrName(m.app)),
                 all_profiles(file), file, fsys, tool)

\* main for --gen (cli.py 123-166)
gen_main(a, app_list, file, fsys, tool) ==
  gen_matched(a, GenTarget(a, app_list), file, fsys, tool)

\* --ungen: match_app inside its try; "none" stands for app = None
UngenTarget(a, app_list) ==
  IF app_list # <<>> THEN Match(a.query, app_list, a.exact)
  ELSE MatchResult("none", NoApp)

\* final_key = direct_key or fallback_key
FinalKey(direct, m) ==
  IF direct.found THEN Some(direct.key)
  ELSE IF m.raised = "" THEN Some(normalize_app_key(IdentityOrName(m.app)))
  ELSE None

\* --ungen: state.remove_profile after the paths are removed
ungen_forget(final_key, removed, file, fsys) ==
  IF removed.raised # "" THEN MainResult(1, "uncaught", file, fsys, 0, final_key)
  ELSE MainResult(0, "removed", removed.file, fsys, 0, final_key)

\* --ungen once _remove_tracked_paths has returned or raised rm
ungen_removed(final_key, rm, file) ==
  IF rm.raised # "" THEN MainResult(3, "remove_error", file, rm.fs, 0, final_key)
  ELSE ungen_forget(final_key, remove_profile(file, final_key), file, rm.fs)

\* --ungen once the record is read (cli.py 181-194)
ungen_record(a, final_key, got, file, fsys) ==
  IF got.raised # "" THEN MainResult(1, "uncaught", file, fsys, 0, final_key)
  ELSE IF ~got.found THEN MainResult(0, "no_profile", file, fsys, 0, final_key)
  ELSE ungen_removed(final_key,
         remove_tracked_paths(got.value, a.dry_run, a.output_dir, fsys), file)

\* --ungen once final_key is computed (cli.py 177-181)
ungen_keyed(a, final_key, file, fsys) ==
  IF final_key = None THEN MainResult(0, "no_profile", file, fsys, 0, <<>>)
  ELSE ungen_record(a, final_key[1], get_profile(file, final_key[1]), file, fsys)

\* --ungen once the match and the direct lookup are made
ungen_matched(a, m, direct, file, fsys) ==
  IF direct.raised # "" THEN MainResult(1, "uncaught", file, fsys, 0, <<>>)
  ELSE ungen_keyed(a, FinalKey(direct, m), file, fsys)

\* main for --ungen (cli.py 168-194)
ungen_main(a, app_list, file, fsys) ==
  ungen_matched(a, UngenTarget(a, app_list), find_profile_key(file, a.query), file, fsys)

\* what the body of the --gen-all loop did for one application
StepResult(result, file, fsys, runs, key) ==
  [result |-> result, file |-> file, fs |-> fsys, runs |-> runs, key |-> key]

\* the loop body once state.record_profile has returned or raised rec
gen_all_recorded(app_key, g, rec, file) ==
  IF rec.raised # "" THEN StepResult("fail", file, g.fs, g.invoked, app_key)
  ELSE StepResult("ok", rec.file, g.fs, g.invoked, app_key)

\* the loop body once generate_for_app has returned or raised g
gen_all_generated(app, app_key, g, file) ==
  IF g.raised # "" THEN StepResult("fail", file, g.fs, g.invoked, app_key)
  ELSE gen_all_recorded(app_key, g,
         record_profile(file, g.app_key,
           record_payload(app.name, app.desktop_id, g.output_dir, g.source_image,
                          g.end4_json_path)),
         file)

\* gen_all_keyed without the test of the existing profile: no application is
\* skipped
gen_all_keyed_never_skips(a, app, app_key, state_profiles, file, fsys, tool) ==
  gen_all_generated(app, app_key,
    call_generate_for_app(app, a.output_dir, a.end4_dir, FallbackImage(a),
                          a.dry_run, fsys, tool),
    file)

\* the loop body once the key is computed (cli.py 208-239)
gen_all_keyed(a, app, app_key, state_profiles, file, fsys, tool) ==
  IF app_key \in state_profiles /\ ~a.force
  THEN StepResult("skip", file, fsys, 0, app_key)
  ELSE gen_all_generated(app, app_key,
         call_generate_for_app(app, a.output_dir, a.end4_dir, FallbackImage(a),
                               a.dry_run, fsys, tool),
         file)

\* one pass through the body of the --gen-all loop (cli.py 207-239)
gen_all_step(a, app, state_profiles, file, fsys, tool) ==
  gen_all_keyed(a, app, normalize_app_key(IdentityOrName(app)), state_profiles,
                file, fsys, tool)

\* return 0 if failed == 0 else 4
gen_all_exit(failed) == IF failed = 0 THEN 0 ELSE 4

(***************************************************************************)
(* Profiles and state files of the model's machines.                       *)
(***************************************************************************)
\* the profile key the command line computes for an application
KeyOf(app) == normalize_app_key(IdentityOrName(app))

\* the mirrored copy generate_for_app makes for a key under ~/.config/end-4
End4Target(key) == <<Word.h, Word.config, Word.end4, Word.matugenium, Word.apps, key, Word.colors>>

\* the source image generation finds for an application on these machines
SourceFor(app) ==
  SourceImage(resolve_icon_source(BaseFs, app.icon), Some(PathStr(ImageGood)))

\* the record a successful generation of app under root leaves
RecordOf(app, root, mirrored) ==
  record_payload(app.name, app.desktop_id, Join(root, KeyOf(app)), SourceFor(app),
                 IF mirrored THEN Some(End4Target(KeyOf(app))) ELSE None)

AppSet == Range(AllApps)

\* the profile mappings in which every key holds one of the records of recs
\* made for that key
MapsOver(recs) ==
  LET keys == {normalize_app_key(r.desktop_id) : r \in recs}
  IN {m \in UNION {[K -> recs] : K \in SUBSET keys} :
        \A k \in DOMAIN m : normalize_app_key(m[k].desktop_id) = k}

\* a well-formed state file holding the mapping map
ObjectFile(map) == FileContent("object", {}, "dict", map)

\* state files that are no well-formed document
CorruptFiles ==
  {MissingFile,
   FileContent("unreadable", {}, "absent", EmptyMap),
   FileContent("badutf8", {}, "absent", EmptyMap),
   FileContent("notjson", {}, "absent", EmptyMap),
   FileContent("nonobject", {}, "absent", EmptyMap),
   FileContent("object", {<<"version", 1>>}, "absent", EmptyMap),
   FileContent("object", {}, "null", EmptyMap),
   FileContent("object", {}, "list", EmptyMap),
   FileContent("object", {<<"version", 1>>}, "number", EmptyMap)}

\* the paths a record's output directory and mirrored copy occupy
OutputPaths(rec) == Prefixes(Resolve(ParsePath(rec.output_dir)))
MirrorPaths(rec) == Prefixes(Resolve(ParsePath(rec.end4_json_path)))

\* the profiles of the command line's machines: generated under /r, not
\* mirrored
InitRecords == {RecordOf(app, RootR, FALSE) : app \in AppSet}

\* the state files of the command line's machines
InitFiles ==
  {MissingFile,
   FileContent("notjson", {}, "absent", EmptyMap),
   FileContent("object", {}, "null", EmptyMap)}
  \cup {ObjectFile(m) : m \in MapsOver(InitRecords)}

\* the roots recorded profiles were generated under: /r, the default root,
\* and /r/../rx (a root given with a ".." step, which is /rx)
RootRx == <<<<"r">>, DotDot, <<"r","x">>>>
RecordRoots == {RootR, default_output_dir, RootRx}

\* the profiles of AppFiles that removal is tried on
RemovalRecords == {RecordOf(AppFiles, root, m) : root \in RecordRoots, m \in BOOLEAN}

\* the keys and records the store is exercised with
StoreKeys == {KeyOf(AppFiles), KeyOf(AppKonsole)}
StoreRecords == InitRecords

\* the state files the store is exercised on
StoreFiles ==
  CorruptFiles
  \cup {ObjectFile(m) : m \in MapsOver(InitRecords)}
  \cup {FileContent("object", {<<"version", 1>>}, "dict", m) : m \in MapsOver(InitRecords)}

(***************************************************************************)
(* Two processes on one state file.  A file is an inode holding text; the  *)
(* names "state.json" and "state.tmp" each refer to an inode or to none    *)
(* (0).  A document's text is the sequence of the characters json.dumps    *)
(* gives for it.                                                           *)
(***************************************************************************)
Procs == {1, 2}
Inodes == {1, 2, 3}

\* a JSON string; the texts of the model hold no character that is escaped
Quoted(s) == <<"\"">> \o s \o <<"\"">>

\* the members of a record in sorted key order; "end4_json_path" is a
\* member only of a record that was mirrored
RecordMembers(r) ==
  <<<<<<"d","e","s","k","t","o","p","_","i","d">>, r.desktop_id>>>>
  \o (IF r.end4_json_path # <<>> THEN <<<<<<"e","n","d","4","_","j","s","o","n","_","p","a","t","h">>, r.end4_json_path>>>> ELSE <<>>)
  \o <<<<<<"n","a","m","e">>, r.name>>, <<<<"o","u","t","p","u","t","_","d","i","r">>, r.output_dir>>,
       <<<<"s","o","u","r","c","e","_","i","m","a","g","e">>, r.source_image>>>>

\* the members "key": "value", one per line at six spaces, with commas
\* between them
RECURSIVE MembersText(_)
MembersText(members) ==
  IF members = <<>> THEN <<>>
  ELSE <<" "," "," "," "," "," ">> \o Quoted(members[1][1]) \o <<":"," ">> \o Quoted(members[1][2])
       \o (IF Len(members) > 1 THEN <<",","\n">> ELSE <<"\n">>)
       \o MembersText(Tail(members))

\* the profiles "key": {...} at four spaces, with commas between them
RECURSIVE ProfilesText(_, _)
ProfilesText(map, keys) ==
  IF keys = <<>> THEN <<>>
  ELSE <<" "," "," "," ">> \o Quoted(keys[1]) \o <<":"," ","{","\n">>
       \o MembersText(RecordMembers(map[keys[1]]))
       \o <<" "," "," "," ","}">>
       \o (IF Len(keys) > 1 THEN <<",","\n">> ELSE <<"\n">>)
       \o ProfilesText(map, Tail(keys))

\* json.dumps({"profiles": map}, indent=2, sort_keys=True), character by
\* character
Serialize(map) ==
  IF DOMAIN map = {} THEN <<"{","\n"," "," ","\"","p","r","o","f","i","l","e","s","\"",":"," ","{","}","\n","}">>
  ELSE <<"{","\n"," "," ","\"","p","r","o","f","i","l","e","s","\"",":"," ","{","\n">>
       \o ProfilesText(map, SortedSeq(DOMAIN map))
       \o <<" "," ","}","\n","}">>

\* the mappings the two processes can read or write, and their texts
RaceMaps == MapsOver(InitRecords)
RaceTexts == [m \in RaceMaps |-> Serialize(m)] @@ <<>>

\* json.loads of a file's text: the mapping it is the text of, if any.  A
\* text of the disk is empty, one of these texts, or one of them followed
\* by the rest of a longer one, which json.loads rejects as extra data
Parses(text) == \E m \in RaceMaps : RaceTexts[m] = text
Parsed(text) == CHOOSE m \in RaceMaps : RaceTexts[m] = text

\* a write of data at offset 0 of an inode holding text: the characters of
\* text beyond the length of data stay
Overwrite(text, data) == data \o Slice(text, Len(data) + 1, Len(text))

\* StateStore.load on the disk: a missing or unparsable file is the fresh
\* document
LoadFrom(d) ==
  IF d.path = 0 THEN EmptyMap
  ELSE IF Parses(d.text[d.path]) THEN Parsed(d.text[d.path])
  ELSE EmptyMap

\* the inode open(tmp, "w") yields: the one the name refers to, else a new one
OpenedInode(d, busy) ==
  IF d.tmp # 0 THEN d.tmp
  ELSE CHOOSE i \in Inodes : i # d.path /\ i \notin busy

(***************************************************************************)
(* State                                                                   *)
(***************************************************************************)
VARIABLES
  discovered,  \* what discover_apps() returns on this machine
  stateFile,   \* the content of the state file
  fs,          \* the filesystem
  pc,          \* "idle", "batch" (inside the --gen-all loop) or "done"
  args,        \* the command line of the invocation
  matugen,     \* the palette tool as the latest generation attempt found it
  finished,    \* what the completed invocation did
  batch,       \* the --gen-all loop's locals
  before,      \* the state file and filesystem when the invocation started
  shadow,      \* per key, the record last recorded and not removed since
  lastOp,      \* the latest store operation and what it returned
  procs,       \* the two concurrent processes
  disk,        \* the names and inodes the two processes work on
  call         \* a function of the code called on its own: its arguments and result

envVars == <<discovered, stateFile, fs>>
invVars == <<pc, args, matugen, finished, batch, before>>
storeVars == <<shadow, lastOp>>
raceVars == <<procs, disk>>
vars == <<envVars, invVars, storeVars, raceVars, call>>

Outcome(exit, outcome, runs, key) ==
  [exit |-> exit, outcome |-> outcome, runs |-> runs, key |-> key]
NoOutcome == Outcome(-1, "", 0, <<>>)
NoTool == Tool(FALSE, 0, FALSE)
NoBatch == [i |-> 0, success |-> 0, failed |-> 0, skipped |-> 0,
            state_profiles |-> {}, handled |-> <<>>]
Snapshot(file, fsys) == [file |-> file, fs |-> fsys]
NoSnapshot == Snapshot(MissingFile, {})

StoreOp(op, key, record, raised, found, value, map) ==
  [op |-> op, key |-> key, record |-> record, raised |-> raised, found |-> found,
   value |-> value, map |-> map]
NoStoreOp == StoreOp("", <<>>, NoRecord, "", FALSE, NoRecord, EmptyMap)
NoShadow == [k \in StoreKeys |-> None]

Proc(at, op, key, record, text, fd) ==
  [at |-> at, op |-> op, key |-> key, record |-> record, text |-> text, fd |-> fd]
NoProcs == [p \in Procs |-> Proc("off", "", <<>>, NoRecord, <<>>, 0)]
Disk(path, tmp, text) == [path |-> path, tmp |-> tmp, text |-> text]
NoDisk == Disk(0, 0, [i \in Inodes |-> <<>>])

\* no invocation is running
Idle ==
  /\ pc = "idle"
  /\ args = NoArgs
  /\ matugen = NoTool
  /\ finished = NoOutcome
  /\ batch = NoBatch
  /\ before = NoSnapshot

NoStore == shadow = NoShadow /\ lastOp = NoStoreOp
NoRace == procs = NoProcs /\ disk = NoDisk

\* no function is called on its own
NoCall == call = [at |-> "off"]

\* the command line on a machine with some applications and profiles
Init ==
  /\ discovered \in AppLists
  /\ stateFile \in InitFiles
  /\ fs = BaseFs \cup UNION {OutputPaths(stateFile.map[k]) : k \in DOMAIN stateFile.map}
  /\ Idle
  /\ NoCall
  /\ NoStore
  /\ NoRace

\* removal on a machine where AppFiles has a profile under one of the roots,
\* mirrored or not, with its directory and its mirrored copy there or gone,
\* and where AppKonsole, AppFinder and AppAlias have a profile or not
InitRemoval ==
  /\ discovered \in {<<>>, <<AppFiles, AppKonsole>>}
  /\ \E rec \in RemovalRecords, dir \in BOOLEAN, mirror \in BOOLEAN, kon \in BOOLEAN,
          fm \in BOOLEAN, al \in BOOLEAN :
       /\ rec.end4_json_path = <<>> => ~mirror
       /\ stateFile = ObjectFile(
            [k \in {KeyOf(AppFiles)} \cup (IF kon THEN {KeyOf(AppKonsole)} ELSE {})
                                     \cup (IF fm THEN {KeyOf(AppFinder)} ELSE {})
                                     \cup (IF al THEN {KeyOf(AppAlias)} ELSE {}) |->
               IF k = KeyOf(AppFiles) THEN rec
               ELSE IF k = KeyOf(AppKonsole) THEN RecordOf(AppKonsole, RootR, FALSE)
               ELSE IF k = KeyOf(AppFinder) THEN RecordOf(AppFinder, RootR, FALSE)
               ELSE RecordOf(AppAlias, RootR, FALSE)])
       /\ fs = BaseFs
               \cup (IF dir THEN OutputPaths(rec) ELSE {})
               \cup (IF mirror THEN MirrorPaths(rec) ELSE {})
               \cup (IF kon THEN OutputPaths(RecordOf(AppKonsole, RootR, FALSE)) ELSE {})
               \cup (IF fm THEN OutputPaths(RecordOf(AppFinder, RootR, FALSE)) ELSE {})
               \cup (IF al THEN OutputPaths(RecordOf(AppAlias, RootR, FALSE)) ELSE {})
  /\ Idle
  /\ NoCall
  /\ NoStore
  /\ NoRace

\* the mapping a state file holds according to the format: the "profiles"
\* object of a well-formed file, else the empty mapping
Expected(file) ==
  [k \in StoreKeys |->
     IF file.kind = "object" /\ file.pkind = "dict" /\ k \in DOMAIN file.map
     THEN Some(file.map[k]) ELSE None]

\* one store on any state file
InitStore ==
  /\ stateFile \in StoreFiles
  /\ shadow = Expected(stateFile)
  /\ lastOp = NoStoreOp
  /\ discovered = <<>>
  /\ fs = {}
  /\ Idle
  /\ NoCall
  /\ NoRace

\* two processes about to change a state file that is missing or holds a
\* document
InitRace ==
  /\ \E m \in RaceMaps, there \in BOOLEAN :
       disk = IF there
              THEN Disk(1, 0, [i \in Inodes |-> IF i = 1 THEN Serialize(m) ELSE <<>>])
              ELSE NoDisk
  /\ procs \in [Procs -> {Proc("load", "record", KeyOf(app), RecordOf(app, RootR, FALSE),
                                 <<>>, 0) : app \in AppSet}
                           \cup {Proc("load", "remove", k, NoRecord, <<>>, 0) :
                                   k \in StoreKeys}]
  /\ discovered = <<>>
  /\ stateFile = MissingFile
  /\ fs = {}
  /\ Idle
  /\ NoCall
  /\ NoStore

(***************************************************************************)
(* The command line: one action per invocation of main, the --gen-all loop *)
(* step by step.                                                           *)
(***************************************************************************)
\* main returns r: the process has ended with what it left on disk
Finish(a, t, r) ==
  /\ pc' = "done"
  /\ args' = a
  /\ matugen' = t
  /\ finished' = Outcome(r.exit, r.outcome, r.runs, r.key)
  /\ stateFile' = r.file
  /\ fs' = r.fs
  /\ before' = Snapshot(stateFile, fs)
  /\ UNCHANGED <<discovered, batch, storeVars, raceVars, call>>

\* matugenium --gen QUERY
Gen ==
  /\ pc = "idle"
  /\ \E q \in Queries, exact \in BOOLEAN, force \in BOOLEAN, dry \in BOOLEAN,
        od \in OutputDirs, img \in Images, t \in Tools :
       Finish(Args("gen", q, exact, dry, force, od, None, img), t,
              gen_main(Args("gen", q, exact, dry, force, od, None, img),
                       discovered, stateFile, fs, t))

\* matugenium --ungen QUERY
Ungen ==
  /\ pc = "idle"
  /\ \E q \in Queries, exact \in BOOLEAN, dry \in BOOLEAN, od \in OutputDirs :
       Finish(Args("ungen", q, exact, dry, FALSE, od, None, None), NoTool,
              ungen_main(Args("ungen", q, exact, dry, FALSE, od, None, None),
                         discovered, stateFile, fs))

\* matugenium --list-apps
ListApps ==
  /\ pc = "idle"
  /\ Finish(Args("list_apps", <<>>, FALSE, FALSE, FALSE, None, None, None), NoTool,
            MainResult(0, "listed", stateFile, fs, 0, <<>>))

\* --gen-all once state.all_profiles() has returned or raised all
EnterBatch(a, all) ==
  IF all.raised # ""
  THEN Finish(a, NoTool, MainResult(1, "uncaught", stateFile, fs, 0, <<>>))
  ELSE /\ pc' = "batch"
       /\ args' = a
       /\ batch' = [NoBatch EXCEPT !.i = 1, !.state_profiles = DOMAIN all.map]
       /\ before' = Snapshot(stateFile, fs)
       /\ UNCHANGED <<envVars, matugen, finished, storeVars, raceVars, call>>

\* matugenium --gen-all, up to the loop (cli.py 196-206)
GenAllStart ==
  /\ pc = "idle"
  /\ \E force \in BOOLEAN, dry \in BOOLEAN, od \in OutputDirs, img \in Images :
       IF discovered = <<>>
       THEN Finish(Args("gen_all", <<>>, FALSE, dry, force, od, None, img), NoTool,
                   MainResult(0, "no_apps", stateFile, fs, 0, <<>>))
       ELSE EnterBatch(Args("gen_all", <<>>, FALSE, dry, force, od, None, img),
                       all_profiles(stateFile))

\* the loop body did r for the application at batch.i
StepDone(t, r) ==
  /\ batch' = [batch EXCEPT
                 !.i = @ + 1,
                 !.success = @ + (IF r.result = "ok" THEN 1 ELSE 0),
                 !.failed = @ + (IF r.result = "fail" THEN 1 ELSE 0),
                 !.skipped = @ + (IF r.result = "skip" THEN 1 ELSE 0),
                 !.handled = Append(@, [app |-> batch.i, result |-> r.result,
                                        runs |-> r.runs, key |-> r.key])]
  /\ stateFile' = r.file
  /\ fs' = r.fs
  /\ matugen' = t
  /\ UNCHANGED <<discovered, pc, args, finished, before, storeVars, raceVars, call>>

\* the loop body for the next application
GenAllStep ==
  /\ pc = "batch"
  /\ batch.i <= Len(discovered)
  /\ \E t \in Tools :
       StepDone(t, gen_all_step(args, discovered[batch.i], batch.state_profiles,
                                stateFile, fs, t))

\* after the loop: the summary and the exit code (cli.py 240-248)
GenAllFinish ==
  /\ pc = "batch"
  /\ batch.i > Len(discovered)
  /\ pc' = "done"
  /\ finished' = Outcome(gen_all_exit(batch.failed), "batch_done", 0, <<>>)
  /\ UNCHANGED <<envVars, args, matugen, batch, before, storeVars, raceVars, call>>

\* the process has exited; the next invocation starts from what it left
Return ==
  /\ pc = "done"
  /\ pc' = "idle"
  /\ args' = NoArgs
  /\ matugen' = NoTool
  /\ finished' = NoOutcome
  /\ batch' = NoBatch
  /\ before' = NoSnapshot
  /\ UNCHANGED <<envVars, storeVars, raceVars, call>>

Next == Gen \/ Ungen \/ ListApps \/ GenAllStart \/ GenAllStep \/ GenAllFinish \/ Return

Spec == Init /\ [][Next]_vars

NextRemoval == Ungen \/ Return

SpecRemoval == InitRemoval /\ [][NextRemoval]_vars

(***************************************************************************)
(* The store: one action per StateStore method.                            *)
(***************************************************************************)
\* a store method has returned or raised; sh is what the keys hold afterwards
\* when it returned
StoreDone(op, key, record, r, map, sh) ==
  /\ stateFile' = r.file
  /\ lastOp' = StoreOp(op, key, record, r.raised, r.found, r.value, map)
  /\ shadow' = IF r.raised = "" THEN sh ELSE shadow
  /\ UNCHANGED <<discovered, fs, invVars, raceVars, call>>

RecordProfile ==
  \E k \in StoreKeys, rec \in StoreRecords :
    StoreDone("record", k, rec, record_profile(stateFile, k, rec), EmptyMap,
              [shadow EXCEPT ![k] = Some(rec)])

RemoveProfile ==
  \E k \in StoreKeys :
    StoreDone("remove", k, NoRecord, remove_profile(stateFile, k), EmptyMap,
              [shadow EXCEPT ![k] = None])

GetProfile ==
  \E k \in StoreKeys :
    StoreDone("get", k, NoRecord, get_profile(stateFile, k), EmptyMap, shadow)

AllProfiles ==
  StoreDone("all", <<>>, NoRecord,
            StoreResult(all_profiles(stateFile).raised, stateFile, FALSE, NoRecord),
            all_profiles(stateFile).map, shadow)

NextStore == RecordProfile \/ RemoveProfile \/ GetProfile \/ AllProfiles

SpecStore == InitStore /\ [][NextStore]_vars

(***************************************************************************)
(* Two processes in record_profile or remove_profile: load, then save as   *)
(* write_text (open, which truncates, and the write of the text) and       *)
(* replace.                                                                *)
(***************************************************************************)
\* the document a process saves after loading map
Changed(pr, map) ==
  IF pr.op = "record" THEN MapSet(map, pr.key, pr.record) ELSE MapPop(map, pr.key)

\* state = self.load() and the change to it
Load ==
  \E p \in Procs :
    /\ procs[p].at = "load"
    /\ procs' = [procs EXCEPT ![p].at = "open",
                              ![p].text = Serialize(Changed(procs[p], LoadFrom(disk)))]
    /\ UNCHANGED <<disk, envVars, invVars, storeVars, call>>

\* the files other processes hold open
HeldBy(others) == {procs[q].fd : q \in others} \ {0}

\* tmp_path.write_text: open(tmp_path, "w") creates the file or truncates
\* it; i is the inode it yields
Opened(p, i) ==
  /\ procs' = [procs EXCEPT ![p].at = "write", ![p].fd = i]
  /\ disk' = [disk EXCEPT !.tmp = i, !.text[i] = <<>>]
  /\ UNCHANGED <<envVars, invVars, storeVars, call>>

Open ==
  \E p \in Procs :
    /\ procs[p].at = "open"
    /\ Opened(p, OpenedInode(disk, HeldBy(Procs \ {p})))

\* tmp_path.write_text: the text is written to the open file, which is closed
Write ==
  \E p \in Procs :
    /\ procs[p].at = "write"
    /\ procs' = [procs EXCEPT ![p].at = "replace", ![p].fd = 0]
    /\ disk' = [disk EXCEPT !.text[procs[p].fd] = Overwrite(@, procs[p].text)]
    /\ UNCHANGED <<envVars, invVars, storeVars, call>>

\* tmp_path.replace(self.path): FileNotFoundError when the name is gone
Replace ==
  \E p \in Procs :
    /\ procs[p].at = "replace"
    /\ IF disk.tmp = 0
       THEN /\ procs' = [procs EXCEPT ![p].at = "raised"]
            /\ UNCHANGED disk
       ELSE /\ procs' = [procs EXCEPT ![p].at = "done"]
            /\ disk' = [disk EXCEPT !.path = disk.tmp, !.tmp = 0]
    /\ UNCHANGED <<envVars, invVars, storeVars, call>>

NextRace == Load \/ Open \/ Write \/ Replace

SpecRace == InitRace /\ [][NextRace]_vars

(***************************************************************************)
(* generate_for_app called on its own.                                     *)
(***************************************************************************)
\* the filesystems generation is tried on: the base one, one without the
\* icon of AppFiles, one with the ~/.config/end-4 directory
GenerateFilesystems ==
  {BaseFs, BaseFs \ {IconNau}, BaseFs \cup Prefixes(<<Word.h, Word.config, Word.end4>>)}

\* the palette tool: as in Tools, or succeeding without leaving colors.json
GenerateTools == Tools \cup {Tool(TRUE, 0, FALSE)}

InitGenerate ==
  /\ call \in [at : {"ready"}, fn : {"generate_for_app"}, app : Range(AllApps),
               output_root : OutputDirs, fallback_image : Images,
               dry_run : BOOLEAN, fsys : GenerateFilesystems, tool : GenerateTools,
               out : {GenerationError("", {}, 0)}]
  /\ discovered = <<>>
  /\ stateFile = MissingFile
  /\ fs = {}
  /\ Idle
  /\ NoStore
  /\ NoRace

\* generate_for_app(app, output_root, None, fallback_image, dry_run)
Generate ==
  /\ call.at = "ready"
  /\ call.fn = "generate_for_app"
  /\ call' = [call EXCEPT
                !.at = "returned",
                !.out = generate_for_app(call.app, call.output_root, None,
                                         call.fallback_image, call.dry_run,
                                         call.fsys, call.tool)]
  /\ UNCHANGED <<envVars, invVars, storeVars, raceVars>>

SpecGenerate == InitGenerate /\ [][Generate]_vars

\* the command line on a machine with some applications and profiles, and
\* generate_for_app called on its own with the arguments it declares
InitRecorded == Init \/ InitGenerate

SpecRecorded == InitRecorded /\ [][Next \/ Generate]_vars

(***************************************************************************)
(* StateStore.find_profile_key called on its own.                          *)
(***************************************************************************)
\* the records and state files the lookup is tried on: a file holds its
\* profiles in any order
FindRecords == InitRecords \cup {RecordOf(AppFinder, RootR, FALSE)}
FindFiles ==
  {MissingFile, FileContent("object", {}, "null", EmptyMap)}
  \cup UNION {{FileInOrder(ObjectFile(m), o) : o \in Orders(DOMAIN m)} :
                 m \in MapsOver(FindRecords)}

\* the queries of the lookup: the command line's, and ones that differ from
\* a key by case, by surrounding spaces or by a character normalize_app_key
\* maps
FindQueries ==
  Queries \cup {<<"k","o","n"," ","d">>, <<" ","K","O","N","-","D"," ">>, <<"d">>}

InitFind ==
  /\ call \in [at : {"ready"}, fn : {"find_profile_key"}, file : FindFiles,
               query : FindQueries, out : {KeyResult("", FALSE, <<>>)}]
  /\ discovered = <<>>
  /\ stateFile = MissingFile
  /\ fs = {}
  /\ Idle
  /\ NoStore
  /\ NoRace

\* StateStore(path).find_profile_key(query)
Find ==
  /\ call.at = "ready"
  /\ call.fn = "find_profile_key"
  /\ call' = [call EXCEPT !.at = "returned",
                          !.out = find_profile_key(call.file, call.query)]
  /\ UNCHANGED <<envVars, invVars, storeVars, raceVars>>

SpecFind == InitFind /\ [][Find]_vars

(***************************************************************************)
(* match_app called on its own.                                            *)
(***************************************************************************)
\* the longest list of applications matching is tried on
MaxMatchApps == 3

\* applications whose only aliases are a, b, ab and abxd
AppA == AppEntry(<<"a">>, <<"a">>, <<>>, <<>>, <<"a">>, <<"/","a","/","a">>, <<>>)
AppB == AppEntry(<<"b">>, <<"b">>, <<>>, <<>>, <<"b">>, <<"/","a","/","b">>, <<>>)
AppAb == AppEntry(<<"a","b">>, <<"a","b">>, <<>>, <<>>, <<"a","b">>,
                  <<"/","a","/","a","b">>, <<>>)
AppAbxd == AppEntry(<<"a","b","x","d">>, <<"a","b","x","d">>, <<>>, <<>>,
                    <<"a","b","x","d">>, <<"/","a","/","a","b","x","d">>, <<>>)

\* the application lists matching is tried on: up to MaxMatchApps of the
\* applications, each at most once, in any order
MatchApps == Range(AllApps) \cup {AppFinder, AppA, AppB, AppAb, AppAbxd}
MatchLists ==
  {s \in UNION {[1..n -> MatchApps] : n \in 0..MaxMatchApps} :
     \A i, j \in DOMAIN s : s[i] = s[j] => i = j}

\* the names matching is tried on: the command line's, empty and blank
\* ones, an alias in another case and with spaces around it, part of one
\* alias only, misspelt ones, and one that contains the aliases a, b and ab
\* and resembles abxd
MatchQueries ==
  Queries \cup {<<>>, <<" ">>, <<" ","N","A","U"," ">>, <<"t">>,
                <<"f","l","e","s">>, <<"k","o","m">>, <<"a","b","c","d">>}

InitMatch ==
  /\ call \in [at : {"ready"}, fn : {"match_app"}, app_name : MatchQueries,
               apps : MatchLists, exact : BOOLEAN, out : {MatchResult("", NoApp)}]
  /\ discovered = <<>>
  /\ stateFile = MissingFile
  /\ fs = {}
  /\ Idle
  /\ NoStore
  /\ NoRace

\* match_app(app_name, apps, exact=exact)
MatchApp ==
  /\ call.at = "ready"
  /\ call.fn = "match_app"
  /\ call' = [call EXCEPT !.at = "returned",
                          !.out = match_app(call.app_name, call.apps, call.exact)]
  /\ UNCHANGED <<envVars, invVars, storeVars, raceVars>>

SpecMatch == InitMatch /\ [][MatchApp]_vars

(***************************************************************************)
(* detect.py: _parse_desktop_entry and discover_apps.  A descriptor file   *)
(* is its name, whether it can be read, and its lines; a line is a group   *)
(* header, a "key=value" pair (key and value stripped), or anything else   *)
(* (blank, comment, no "=").  folder is the folder below the search root   *)
(* the file lies in, as path parts (none for a file of the root itself).   *)
(* A search root is None when it does not exist, else the files below it,  *)
(* those of one folder in the order the folder yields them.                *)
(***************************************************************************)
GroupLine(text) == [kind |-> "group", text |-> text, key |-> <<>>, value |-> <<>>]
PairLine(key, value) == [kind |-> "pair", text |-> <<>>, key |-> key, value |-> value]
OtherLine == [kind |-> "other", text |-> <<>>, key |-> <<>>, value |-> <<>>]

\* a file of the search root itself
DescriptorFile(name, readable, lines) ==
  [name |-> name, readable |-> readable, lines |-> lines, folder |-> <<>>]

\* the file in a folder below the search root
InFolder(file, folder) == [file EXCEPT !.folder = folder]

\* the variables of _parse_desktop_entry before its loop
ParseStart ==
  [name |-> <<>>, generic_name |-> <<>>, icon |-> <<>>, exec_cmd |-> <<>>,
   app_type |-> <<"A","p","p","l","i","c","a","t","i","o","n">>, hidden |-> FALSE, no_display |-> FALSE,
   keywords |-> <<>>, in_desktop_entry |-> FALSE]

\* text.split(sep), each part stripped, the empty parts dropped
RECURSIVE SplitStripped(_, _, _)
SplitStripped(text, sep, cur) ==
  IF text = <<>>
  THEN IF Strip(cur) = <<>> THEN <<>> ELSE <<Strip(cur)>>
  ELSE IF text[1] = sep
       THEN (IF Strip(cur) = <<>> THEN <<>> ELSE <<Strip(cur)>>)
            \o SplitStripped(Tail(text), sep, <<>>)
       ELSE SplitStripped(Tail(text), sep, Append(cur, text[1]))

\* the if/elif chain on one "key=value" line of the [Desktop Entry] group
ParsePair(st, key, value) ==
  IF IsPrefix(<<"N","a","m","e","[">>, key) /\ st.name = <<>> THEN [st EXCEPT !.name = value]
  ELSE IF key = <<"N","a","m","e">> /\ st.name = <<>> THEN [st EXCEPT !.name = value]
  ELSE IF IsPrefix(<<"G","e","n","e","r","i","c","N","a","m","e","[">>, key) /\ st.generic_name = <<>>
       THEN [st EXCEPT !.generic_name = value]
  ELSE IF key = <<"G","e","n","e","r","i","c","N","a","m","e">> /\ st.generic_name = <<>>
       THEN [st EXCEPT !.generic_name = value]
  ELSE IF key = <<"I","c","o","n">> /\ st.icon = <<>> THEN [st EXCEPT !.icon = value]
  ELSE IF key = <<"E","x","e","c">> /\ st.exec_cmd = <<>> THEN [st EXCEPT !.exec_cmd = value]
  ELSE IF key = <<"T","y","p","e">> THEN [st EXCEPT !.app_type = value]
  ELSE IF key = <<"H","i","d","d","e","n">> THEN [st EXCEPT !.hidden = (Lower(value) = <<"t","r","u","e">>)]
  ELSE IF key = <<"N","o","D","i","s","p","l","a","y">> THEN [st EXCEPT !.no_display = (Lower(value) = <<"t","r","u","e">>)]
  ELSE IF key = <<"K","e","y","w","o","r","d","s">>
       THEN [st EXCEPT !.keywords = SplitStripped(value, ";", <<>>)]
  ELSE st

\* one pass of the loop over the lines
ParseLine(st, line) ==
  IF line.kind = "other" THEN st
  ELSE IF line.kind = "group"
       THEN [st EXCEPT !.in_desktop_entry = (line.text = <<"[","D","e","s","k","t","o","p"," ","E","n","t","r","y","]">>)]
  ELSE IF ~st.in_desktop_entry THEN st
  ELSE ParsePair(st, line.key, line.value)

RECURSIVE ParseLines(_, _)
ParseLines(st, lines) ==
  IF lines = <<>> THEN st ELSE ParseLines(ParseLine(st, lines[1]), Tail(lines))

\* _parse_desktop_entry after the loop: the entry, or None
parse_accept(dir, name, st) ==
  IF st.name = <<>> THEN None
  ELSE IF Lower(st.app_type) # <<"a","p","p","l","i","c","a","t","i","o","n">> THEN None
  ELSE IF st.hidden \/ st.no_display THEN None
  ELSE Some(AppEntry(name, st.name, st.generic_name, st.icon, st.exec_cmd,
                     PathStr(Join(dir, name)), st.keywords))

\* _parse_desktop_entry(dir / file.name)
parse_desktop_entry(dir, file) ==
  IF ~file.readable THEN None
  ELSE parse_accept(dir \o file.folder, file.name, ParseLines(ParseStart, file.lines))

\* the entry made of a bundle or shortcut: its name is the file's stem, its
\* identity the stem and the extension
bundle_entry(dir, file, extension) ==
  AppEntry(Stem(file.name) \o extension, Stem(file.name), <<>>, <<>>, <<>>,
           PathStr(Join(dir \o file.folder, file.name)), <<>>)

\* the platforms discover_apps tells apart
Platforms == {"linux", "darwin", "nt"}

\* the extension of the files a platform's discovery looks for
Extension(platform) ==
  IF platform = "darwin" THEN <<".","a","p","p">>
  ELSE IF platform = "nt" THEN <<".","l","n","k">>
  ELSE <<".","d","e","s","k","t","o","p">>

\* DESKTOP_DIRS, the roots of _discover_macos_apps, and those of
\* _discover_windows_apps with PROGRAMDATA = /pd and APPDATA = /ad
DESKTOP_DIRS ==
  <<<<<<"u","s","r">>, <<"s","h","a","r","e">>, <<"a","p","p","l","i","c","a","t","i","o","n","s">>>>,
    <<<<"u","s","r">>, <<"l","o","c","a","l">>, <<"s","h","a","r","e">>, <<"a","p","p","l","i","c","a","t","i","o","n","s">>>>,
    <<Word.h, Word.local, <<"s","h","a","r","e">>, <<"a","p","p","l","i","c","a","t","i","o","n","s">>>>,
    <<Word.h, Word.local, <<"s","h","a","r","e">>, <<"f","l","a","t","p","a","k">>, <<"e","x","p","o","r","t","s">>, <<"s","h","a","r","e">>, <<"a","p","p","l","i","c","a","t","i","o","n","s">>>>,
    <<<<"v","a","r">>, <<"l","i","b">>, <<"f","l","a","t","p","a","k">>, <<"e","x","p","o","r","t","s">>, <<"s","h","a","r","e">>, <<"a","p","p","l","i","c","a","t","i","o","n","s">>>>>>
MacRoots == <<<<<<"A","p","p","l","i","c","a","t","i","o","n","s">>>>, <<Word.h, <<"A","p","p","l","i","c","a","t","i","o","n","s">>>>>>
WindowsRoots ==
  <<<<<<"p","d">>, <<"M","i","c","r","o","s","o","f","t">>, <<"W","i","n","d","o","w","s">>, <<"S","t","a","r","t"," ","M","e","n","u">>, <<"P","r","o","g","r","a","m","s">>>>,
    <<<<"a","d">>, <<"M","i","c","r","o","s","o","f","t">>, <<"W","i","n","d","o","w","s">>, <<"S","t","a","r","t"," ","M","e","n","u">>, <<"P","r","o","g","r","a","m","s">>>>>>

SearchRoots(platform) ==
  IF platform = "darwin" THEN MacRoots
  ELSE IF platform = "nt" THEN WindowsRoots
  ELSE DESKTOP_DIRS

\* name matches "*" + extension
GlobMatches(name, extension) ==
  /\ Len(name) >= Len(extension)
  /\ Slice(name, Len(name) - Len(extension) + 1, Len(name)) = extension

\* name matches "*" + extension on Windows, where pathlib compiles the
\* pattern to ignore case
GlobMatchesNoCase(name, extension) == GlobMatches(Lower(name), Lower(extension))

\* root.glob("*" + extension): the files of the root itself whose name
\* matches, in the order of listing
Globbed(listing, extension) ==
  SelectSeq(listing, LAMBDA f : f.folder = <<>> /\ GlobMatches(f.name, extension))

\* the folders directly below folder that hold files of the listing, in the
\* order of their first file
RECURSIVE Subfolders(_, _, _)
Subfolders(listing, folder, seen) ==
  IF listing = <<>> THEN seen
  ELSE Subfolders(Tail(listing), folder,
         IF /\ Len(listing[1].folder) > Len(folder)
            /\ IsPrefix(folder, listing[1].folder)
            /\ Slice(listing[1].folder, 1, Len(folder) + 1) \notin Range(seen)
         THEN Append(seen, Slice(listing[1].folder, 1, Len(folder) + 1))
         ELSE seen)

\* the walk of rglob from folder: the matching files of the folder itself,
\* then the walk of each of its subfolders
RECURSIVE WalkFrom(_, _, _)
RECURSIVE WalkEach(_, _, _)
WalkFrom(listing, folder, extension) ==
  SelectSeq(listing,
            LAMBDA f : f.folder = folder /\ GlobMatchesNoCase(f.name, extension))
  \o WalkEach(listing, Subfolders(listing, folder, <<>>), extension)
WalkEach(listing, folders, extension) ==
  IF folders = <<>> THEN <<>>
  ELSE WalkFrom(listing, folders[1], extension)
       \o WalkEach(listing, Tail(folders), extension)

\* root.rglob("*" + extension) on Windows
RGlobbed(listing, extension) == WalkFrom(listing, <<>>, extension)

\* sorted(root.glob(...)): the matching files by name (the names of the
\* files of one directory differ)
SortedGlob(listing, extension) ==
  LET files == Range(Globbed(listing, extension))
      names == SortedSeq({f.name : f \in files})
  IN [i \in DOMAIN names |-> CHOOSE f \in files : f.name = names[i]]

\* a dict of entries by desktop_id, as the sequence of its values in
\* insertion order: dict.setdefault keeps the entry already there
DictSetDefault(found, app) ==
  IF \E i \in DOMAIN found : found[i].desktop_id = app.desktop_id
  THEN found
  ELSE Append(found, app)

\* found[app.desktop_id] = app: the entry already there is replaced, in place
DictAssign(found, app) ==
  IF \E i \in DOMAIN found : found[i].desktop_id = app.desktop_id
  THEN [i \in DOMAIN found |->
          IF found[i].desktop_id = app.desktop_id THEN app ELSE found[i]]
  ELSE Append(found, app)

\* sorted(values, key=lambda item: item.name.lower()): one insertion of the
\* stable sort, after the entries that are not greater
InsertByName(sorted, app) ==
  LET after == {i \in DOMAIN sorted : StrLess(Lower(app.name), Lower(sorted[i].name))}
      at == IF after = {} THEN Len(sorted) + 1
            ELSE CHOOSE i \in after : \A j \in after : i <= j
  IN Slice(sorted, 1, at - 1) \o <<app>> \o Slice(sorted, at, Len(sorted))

RECURSIVE SortedByName(_, _)
SortedByName(values, sorted) ==
  IF values = <<>> THEN sorted
  ELSE SortedByName(Tail(values), InsertByName(sorted, values[1]))

\* the inner loop of discover_apps over the descriptors of one directory
RECURSIVE ScanDesktopFiles(_, _, _)
ScanDesktopFiles(dir, files, found) ==
  IF files = <<>> THEN found
  ELSE ScanDesktopFiles(dir, Tail(files),
         IF parse_desktop_entry(dir, files[1]) = None THEN found
         ELSE DictSetDefault(found, parse_desktop_entry(dir, files[1])[1]))

\* the inner loop of _discover_macos_apps and _discover_windows_apps
RECURSIVE ScanBundles(_, _, _, _)
ScanBundles(dir, files, extension, apps) ==
  IF files = <<>> THEN apps
  ELSE ScanBundles(dir, Tail(files), extension,
                   DictAssign(apps, bundle_entry(dir, files[1], extension)))

\* one pass of the loop over the roots: a root that does not exist is
\* skipped
ScanRoot(platform, dir, root, found) ==
  IF root = None THEN found
  ELSE IF platform = "darwin"
       THEN ScanBundles(dir, SortedGlob(root[1], Extension(platform)),
                        Extension(platform), found)
  ELSE IF platform = "nt"
       THEN ScanBundles(dir, RGlobbed(root[1], Extension(platform)),
                        Extension(platform), found)
  ELSE ScanDesktopFiles(dir, SortedGlob(root[1], Extension(platform)), found)

RECURSIVE ScanRoots(_, _, _, _)
ScanRoots(platform, roots, r, found) ==
  IF r > Len(roots) THEN found
  ELSE ScanRoots(platform, roots, r + 1,
                 ScanRoot(platform, SearchRoots(platform)[r], roots[r], found))

\* discover_apps() on a platform whose search roots hold roots
discover_apps(platform, roots) ==
  SortedByName(ScanRoots(platform, roots, 1, <<>>), <<>>)

(***************************************************************************)
(* discover_apps called on its own.                                        *)
(***************************************************************************)
\* the number of search roots that are populated, and of files in one
MaxRoots == 2
MaxFiles == 2

DesktopEntryGroup == GroupLine(<<"[","D","e","s","k","t","o","p"," ","E","n","t","r","y","]">>)

\* the folder shortcuts are grouped in below a Start Menu root
FolderTools == <<<<"T","o","o","l","s">>>>

\* the files of the search roots: two descriptors of one identity that
\* differ in name, a descriptor of another identity, readable or not, one
\* that is hidden, a file discovery does not look for, and in a folder
\* below the root a descriptor of the first identity and one of its own
DiscoveryFiles(platform) ==
  {DescriptorFile(<<"B","e","t","a">> \o Extension(platform), TRUE,
                  <<DesktopEntryGroup, PairLine(<<"N","a","m","e">>, <<"B","e","t","a">>)>>),
   DescriptorFile(<<"B","e","t","a">> \o Extension(platform), TRUE,
                  <<DesktopEntryGroup, PairLine(<<"N","a","m","e">>, <<"Z","e","d">>)>>),
   DescriptorFile(<<"a","l","p","h","a">> \o Extension(platform), TRUE,
                  <<OtherLine, DesktopEntryGroup, PairLine(<<"N","a","m","e">>, <<"a","l","p","h","a">>),
                    PairLine(<<"K","e","y","w","o","r","d","s">>, <<"a",";"," ","b",";">>)>>),
   DescriptorFile(<<"a","l","p","h","a">> \o Extension(platform), FALSE, <<>>),
   DescriptorFile(<<"h","i","d">> \o Extension(platform), TRUE,
                  <<DesktopEntryGroup, PairLine(<<"N","a","m","e">>, <<"H","i","d">>),
                    PairLine(<<"H","i","d","d","e","n">>, <<"T","r","u","e">>)>>),
   DescriptorFile(<<"n",".","t","x","t">>, TRUE,
                  <<DesktopEntryGroup, PairLine(<<"N","a","m","e">>, <<"N","o","t","e">>)>>),
   InFolder(DescriptorFile(<<"B","e","t","a">> \o Extension(platform), TRUE,
                           <<DesktopEntryGroup, PairLine(<<"N","a","m","e">>, <<"S","u","b">>)>>),
            FolderTools),
   InFolder(DescriptorFile(<<"T","o","o","l">> \o Extension(platform), TRUE,
                           <<DesktopEntryGroup, PairLine(<<"N","a","m","e">>, <<"T","o","o","l">>)>>),
            FolderTools)}

\* what a search root can be: missing, or up to MaxFiles files that differ
\* in folder or name, in some order
RootContents(platform) ==
  {None} \cup
  {Some(s) : s \in {t \in UNION {[1..n -> DiscoveryFiles(platform)] : n \in 0..MaxFiles} :
                      \A i, j \in DOMAIN t :
                         (t[i].name = t[j].name /\ t[i].folder = t[j].folder) => i = j}}

\* the search roots of a platform that are populated: the first MaxRoots
RootCount(platform) ==
  IF Len(SearchRoots(platform)) < MaxRoots THEN Len(SearchRoots(platform)) ELSE MaxRoots

InitDiscover ==
  /\ \E platform \in Platforms :
       call \in [at : {"ready"}, fn : {"discover_apps"}, platform : {platform},
                 roots : [1..RootCount(platform) -> RootContents(platform)],
                 out : {<<>>}]
  /\ discovered = <<>>
  /\ stateFile = MissingFile
  /\ fs = {}
  /\ Idle
  /\ NoStore
  /\ NoRace

\* discover_apps()
Discover ==
  /\ call.at = "ready"
  /\ call.fn = "discover_apps"
  /\ call' = [call EXCEPT !.at = "returned",
                          !.out = discover_apps(call.platform, call.roots)]
  /\ UNCHANGED <<envVars, invVars, storeVars, raceVars>>

SpecDiscover == InitDiscover /\ [][Discover]_vars

(***************************************************************************)
(* _parse_desktop_entry called on its own.                                 *)
(***************************************************************************)
\* the number of lines of a descriptor after its first
MaxLines == 3

\* the lines of the descriptors: group headers, a line that is no pair, and
\* for every field two lines that differ in value (for the name a localized
\* one and one without a value as well)
DescriptorLines ==
  {DesktopEntryGroup, GroupLine(<<"[","X","]">>), OtherLine,
   PairLine(<<"N","a","m","e">>, <<"A">>), PairLine(<<"N","a","m","e","[","d","e","]">>, <<"B">>), PairLine(<<"N","a","m","e">>, <<>>),
   PairLine(<<"G","e","n","e","r","i","c","N","a","m","e">>, <<"G">>), PairLine(<<"G","e","n","e","r","i","c","N","a","m","e","[","d","e","]">>, <<"H">>),
   PairLine(<<"I","c","o","n">>, <<"i","c">>), PairLine(<<"I","c","o","n">>, <<"j","c">>),
   PairLine(<<"E","x","e","c">>, <<"x">>), PairLine(<<"E","x","e","c">>, <<"y">>),
   PairLine(<<"T","y","p","e">>, <<"a","p","p","l","i","c","a","t","i","o","n">>), PairLine(<<"T","y","p","e">>, <<"L","i","n","k">>),
   PairLine(<<"H","i","d","d","e","n">>, <<"t","r","u","e">>), PairLine(<<"H","i","d","d","e","n">>, <<"f","a","l","s","e">>),
   PairLine(<<"N","o","D","i","s","p","l","a","y">>, <<"T","r","u","e">>), PairLine(<<"N","o","D","i","s","p","l","a","y">>, <<"0">>),
   PairLine(<<"K","e","y","w","o","r","d","s">>, <<"k",";"," ",";">>), PairLine(<<"K","e","y","w","o","r","d","s">>, <<"m">>)}

\* the descriptors parsing is tried on: a.desktop, unreadable, or starting
\* with the [Desktop Entry] header or with any line, then up to n lines
ParsedFiles(n) ==
  {DescriptorFile(<<"a",".","d","e","s","k","t","o","p">>, FALSE, <<>>)}
  \cup {DescriptorFile(<<"a",".","d","e","s","k","t","o","p">>, TRUE, <<first>> \o rest) :
          first \in {DesktopEntryGroup, GroupLine(<<"[","X","]">>), PairLine(<<"N","a","m","e">>, <<"A">>)},
          rest \in UNION {[1..m -> DescriptorLines] : m \in 0..n}}

InitParse ==
  /\ call \in [at : {"ready"}, fn : {"parse_desktop_entry"}, file : ParsedFiles(MaxLines),
               out : {None}]
  /\ discovered = <<>>
  /\ stateFile = MissingFile
  /\ fs = {}
  /\ Idle
  /\ NoStore
  /\ NoRace

\* _parse_desktop_entry(Path("/usr/share/applications") / file.name)
Parse ==
  /\ call.at = "ready"
  /\ call.fn = "parse_desktop_entry"
  /\ call' = [call EXCEPT !.at = "returned",
                          !.out = parse_desktop_entry(DESKTOP_DIRS[1], call.file)]
  /\ UNCHANGED <<envVars, invVars, storeVars, raceVars>>

SpecParse == InitParse /\ [][Parse]_vars

(***************************************************************************)
(* normalize_app_key called on its own.                                    *)
(***************************************************************************)
\* the length of the names, and the characters they are made of: letters in
\* both cases, a digit, the hyphen, other punctuation, and a letter whose
\* lower case is two characters
MaxLen == 4
KeyAlphabet == {"a", "B", "1", "-", " ", ".", DottedI}

InitNormalize ==
  /\ call \in [at : {"ready"}, fn : {"normalize_app_key"},
               raw_name : UNION {[1..n -> KeyAlphabet] : n \in 0..MaxLen},
               out : {<<>>}]
  /\ discovered = <<>>
  /\ stateFile = MissingFile
  /\ fs = {}
  /\ Idle
  /\ NoStore
  /\ NoRace

\* normalize_app_key(raw_name)
Normalize ==
  /\ call.at = "ready"
  /\ call.fn = "normalize_app_key"
  /\ call' = [call EXCEPT !.at = "returned", !.out = normalize_app_key(call.raw_name)]
  /\ UNCHANGED <<envVars, invVars, storeVars, raceVars>>

SpecNormalize == InitNormalize /\ [][Normalize]_vars

(***************************************************************************)
(* Properties.  Each is stated over the state a finished invocation leaves *)
(* (pc = "done"), with before holding the state file and filesystem the    *)
(* invocation started from.                                                *)
(***************************************************************************)
\* the state file holds a record under key
HoldsRecord(file, key) ==
  file.kind = "object" /\ file.pkind = "dict" /\ key \in DOMAIN file.map

\* the state file is missing or is a document whose "profiles" is an object
WellFormed(file) ==
  file.kind = "missing" \/ (file.kind = "object" /\ file.pkind = "dict")

\* the application the finished --gen resolved, its profile key and the
\* source image generation finds for it
GenApp == GenTarget(args, discovered)
GenKey == KeyOf(GenApp.app)
GenImage == SourceImage(resolve_icon_source(before.fs, GenApp.app.icon), FallbackImage(args))

\* a finished --gen that got as far as generation: the application matched,
\* the profiles were read, and no record is held or --force is given
GenReached ==
  /\ pc = "done"
  /\ args.action = "gen"
  /\ GenApp.raised = ""
  /\ all_profiles(before.file).raised = ""
  /\ (GenKey \notin DOMAIN all_profiles(before.file).map \/ args.force)

\* the directory --gen writes the profile of the resolved application to
GenOutputDir ==
  Join(IF args.output_dir # None THEN args.output_dir[1] ELSE default_output_dir, GenKey)

\* C1: a --gen without --force for an application whose key the state store
\* already holds a record under runs the palette tool not once, leaves the
\* state file as it was and exits with 0.
C1_IdempotentGen ==
  (/\ pc = "done"
   /\ args.action = "gen"
   /\ ~args.force
   /\ GenApp.raised = ""
   /\ HoldsRecord(before.file, GenKey))
  => /\ finished.runs = 0
     /\ stateFile = before.file
     /\ stateFile.map[GenKey] = before.file.map[GenKey]
     /\ finished.exit = 0

\* C1's case: a --gen without --force was skipped for a recorded application
C1_Witness ==
  /\ pc = "done"
  /\ args.action = "gen"
  /\ ~args.force
  /\ GenApp.raised = ""
  /\ HoldsRecord(before.file, GenKey)
  /\ finished.outcome = "skipped"
  /\ finished.key = GenKey

\* C2: a --gen for an application with no record (or with --force), with the
\* palette tool installed and exiting 0 and a source image that resolves,
\* exits with 0 and leaves under the application's key a record with its
\* name, identity, output directory and source image.
C2_SuccessfulGenRecorded ==
  (/\ GenReached
   /\ WellFormed(before.file)
   /\ matugen.avail
   /\ matugen.exit = 0
   /\ GenImage # <<>>
   /\ ExistsText(before.fs, GenImage))
  => /\ finished.exit = 0
     /\ HoldsRecord(stateFile, GenKey)
     /\ stateFile.map[GenKey].name = GenApp.app.name
     /\ stateFile.map[GenKey].desktop_id = GenApp.app.desktop_id
     /\ stateFile.map[GenKey].output_dir = PathStr(GenOutputDir)
     /\ stateFile.map[GenKey].source_image = GenImage

\* a --gen in which matching, image resolution or the palette tool fails
GenFails ==
  \/ /\ pc = "done"
     /\ args.action = "gen"
     /\ GenApp.raised # ""
  \/ /\ GenReached
     /\ \/ ~ExistsText(before.fs, GenImage)
        \/ ~matugen.avail
        \/ matugen.exit # 0

\* a step of the --gen-all loop that counted its application as failed
BatchStepFails ==
  /\ pc = "batch"
  /\ batch'.i = batch.i + 1
  /\ batch'.failed = batch.failed + 1

\* C3: a --gen in which matching, image resolution or the palette tool fails
\* leaves the state file as it was and exits with 2; a step of --gen-all that
\* fails leaves the state file as it was.
C3_FailedGenKeepsState ==
  /\ [](GenFails => (stateFile = before.file /\ finished.exit = 2))
  /\ [][BatchStepFails => stateFile' = stateFile]_vars

\* C3's case: the palette tool is installed and fails, for an application
\* whose generation was reached with an image that resolves
C3_Witness ==
  /\ GenReached
  /\ ExistsText(before.fs, GenImage)
  /\ matugen.avail
  /\ matugen.exit # 0
  /\ finished.exit = 2
  /\ stateFile = before.file

\* the record a finished --ungen resolved
UngenResolved ==
  /\ pc = "done"
  /\ args.action = "ungen"
  /\ finished.key # <<>>
  /\ HoldsRecord(before.file, finished.key)

UngenRecord == before.file.map[finished.key]

\* C4: an --ungen with --output-dir given that resolves a record whose output
\* directory resolves outside that root exits with 3, deletes no path and
\* leaves the record in the state file.
C4_ContainmentViolation ==
  (/\ UngenResolved
   /\ args.output_dir # None
   /\ UngenRecord.output_dir # <<>>
   /\ ~safe_within(args.output_dir[1], ParsePath(UngenRecord.output_dir)))
  => /\ finished.exit = 3
     /\ fs = before.fs
     /\ HoldsRecord(stateFile, finished.key)
     /\ stateFile.map[finished.key] = UngenRecord

\* C5: an --ungen with --output-dir given deletes only paths that resolve to
\* the managed root or below it.
C5_DeletionsUnderRoot ==
  (/\ pc = "done"
   /\ args.action = "ungen"
   /\ args.output_dir # None)
  => \A p \in before.fs \ fs : IsPrefix(Resolve(args.output_dir[1]), p)

\* C6: of two processes that each load, change and save the state file, none
\* raises, and once both have saved the state file holds the whole text one
\* of them wrote.
C6_NoCorruption ==
  /\ \A p \in Procs : procs[p].at # "raised"
  /\ (\A p \in Procs : procs[p].at = "done")
     => /\ disk.path # 0
        /\ disk.text[disk.path] \in {procs[p].text : p \in Procs}

\* C7: get_profile returns, without raising, the record last recorded under
\* the key and not removed since, or none; remove_profile of a key that
\* holds no record returns none without raising.
C7_RoundTrip ==
  /\ lastOp.op = "get"
     => /\ lastOp.raised = ""
        /\ lastOp.found = (shadow[lastOp.key] # None)
        /\ lastOp.found => lastOp.value = shadow[lastOp.key][1]
  /\ (lastOp.op = "remove" /\ shadow[lastOp.key] = None)
     => /\ lastOp.raised = ""
        /\ \A k \in StoreKeys \ {lastOp.key} :
             shadow[k] # None => /\ HoldsRecord(stateFile, k)
                                 /\ stateFile.map[k] = shadow[k][1]

\* C8: whatever the state file holds (a file that is not UTF-8 aside), load
\* returns a document whose "profiles" is a mapping, and record_profile,
\* remove_profile, all_profiles and get_profile return without raising.
C8_CorruptionNotFatal ==
  stateFile.kind # "badutf8"
  => /\ load(stateFile).raised = ""
     /\ load(stateFile).doc.pkind = "dict"
     /\ lastOp.raised = ""

\* C9: a finished --gen-all over a non-empty list of applications has handled
\* every application once, in discovery order, its three counters add up to
\* the number of applications, and it exits with 4 when an application
\* failed and with 0 when none did.
C9_BatchSemantics ==
  (/\ pc = "done"
   /\ args.action = "gen_all"
   /\ discovered # <<>>)
  => /\ Len(batch.handled) = Len(discovered)
     /\ \A n \in DOMAIN batch.handled : batch.handled[n].app = n
     /\ batch.success + batch.failed + batch.skipped = Len(discovered)
     /\ finished.exit = (IF batch.failed >= 1 THEN 4 ELSE 0)

\* a step of the --gen-all loop, without --force, for an application whose
\* key the state file holds a record under
BatchStepOnRecorded ==
  /\ pc = "batch"
  /\ batch'.i = batch.i + 1
  /\ ~args.force
  /\ HoldsRecord(stateFile, KeyOf(discovered[batch.i]))

\* C10: in --gen-all without --force, an application whose key the state
\* file holds a record under is counted as skipped, the palette tool is not
\* run for it, and the state file is left as it was.
C10_BatchSkipsExisting ==
  [][BatchStepOnRecorded
     => /\ batch'.skipped = batch.skipped + 1
        /\ batch'.handled[batch.i].result = "skip"
        /\ batch'.handled[batch.i].runs = 0
        /\ stateFile' = stateFile]_vars

\* C10's case: a --gen-all without --force has skipped a recorded application
C10_Witness ==
  /\ pc \in {"batch", "done"}
  /\ args.action = "gen_all"
  /\ ~args.force
  /\ \E n \in DOMAIN batch.handled :
       /\ batch.handled[n].result = "skip"
       /\ HoldsRecord(stateFile, KeyOf(discovered[n]))

\* the runs of the palette tool a finished invocation made, the --gen-all
\* loop's included
InvocationRuns ==
  IF args.action = "gen_all"
  THEN Cardinality({n \in DOMAIN batch.handled : batch.handled[n].runs > 0})
  ELSE finished.runs

\* C11: a --gen, --gen-all or --ungen with --dry-run runs the palette tool
\* not once, creates and deletes no path, and leaves the state file as it
\* was.
C11_DryRunPreview ==
  (/\ pc = "done"
   /\ args.dry_run
   /\ args.action \in {"gen", "gen_all", "ungen"})
  => /\ InvocationRuns = 0
     /\ fs = before.fs
     /\ stateFile = before.file

\* generate_for_app has returned or raised
Generated == call.at = "returned" /\ call.fn = "generate_for_app"

\* the icon of the application resolves to no file, and no fallback image is
\* given or the one given does not exist
NoSourceImage ==
  /\ resolve_icon_source(call.fsys, call.app.icon) = <<>>
  /\ \/ call.fallback_image = None
     \/ ~ExistsText(call.fsys, call.fallback_image[1])

\* C12: generate_for_app, with the palette tool installed, for an
\* application whose icon resolves to no file and without a fallback image
\* that exists, raises the error of the unresolved source image, runs the
\* palette tool not once and creates no directory.
C12_UnresolvedImageFails ==
  (Generated /\ call.tool.avail /\ NoSourceImage)
  => /\ call.out.raised = "Could not resolve a valid icon/image source."
     /\ call.out.invoked = 0
     /\ call.out.fs = call.fsys

\* C13: a --ungen whose query find_profile_key resolves to no key removes no
\* record, deletes nothing and exits 0, whatever the discovered
\* applications match.
C13_RemovalOnlyThroughStore ==
  (/\ pc = "done"
   /\ args.action = "ungen"
   /\ ~find_profile_key(before.file, args.query).found)
  => /\ stateFile = before.file
     /\ fs = before.fs
     /\ finished.exit = 0

\* find_profile_key has returned or raised
Found == call.at = "returned" /\ call.fn = "find_profile_key"

\* the keys of the file, in its order, whose record's name or desktop_id
\* equals or contains text, whatever the case
KeysHolding(file, text) ==
  SelectSeq(file.order,
            LAMBDA k : \/ Contains(Lower(file.map[k].name), Lower(text))
                       \/ Contains(Lower(file.map[k].desktop_id), Lower(text)))

\* C14: on a well-formed state file, find_profile_key(query) returns
\* normalize_app_key(query) when that is a recorded key; otherwise the first
\* key, in the file's order, whose record's name or desktop_id equals or
\* contains the query, whatever the case; otherwise None.
C14_FindProfileKey ==
  (Found /\ WellFormed(call.file))
  => call.out =
       IF normalize_app_key(call.query) \in DOMAIN call.file.map
       THEN KeyResult("", TRUE, normalize_app_key(call.query))
       ELSE IF KeysHolding(call.file, call.query) # <<>>
            THEN KeyResult("", TRUE, KeysHolding(call.file, call.query)[1])
            ELSE KeyResult("", FALSE, <<>>)

\* a non-dry-run --ungen has finished whose query is the stored name of the
\* profile k, whatever the case
UngenByName(k) ==
  /\ pc = "done"
  /\ args.action = "ungen"
  /\ ~args.dry_run
  /\ HoldsRecord(before.file, k)
  /\ Lower(before.file.map[k].name) = Lower(args.query)

\* the invocation removed the record of k and nothing else from the state
\* file, its output directory and mirrored copy do not exist, and it exited
\* with 0
RemovedExactly(k) ==
  /\ finished.exit = 0
  /\ finished.key = k
  /\ DOMAIN stateFile.map = DOMAIN before.file.map \ {k}
  /\ \A j \in DOMAIN stateFile.map : stateFile.map[j] = before.file.map[j]
  /\ Resolve(ParsePath(before.file.map[k].output_dir)) \notin fs
  /\ before.file.map[k].end4_json_path # <<>>
     => Resolve(ParsePath(before.file.map[k].end4_json_path)) \notin fs
  /\ DOMAIN before.file.map = {k} => all_profiles(stateFile).map = EmptyMap

\* the query, lower-cased, is the key of another profile than k, or a profile
\* earlier than k in the file's order has a name or desktop_id that contains it
ShadowedName(k) ==
  \E j \in DOMAIN before.file.map \ {k} :
     \/ j = Lower(Strip(args.query))
     \/ /\ \E a, b \in DOMAIN before.file.order :
             a < b /\ before.file.order[a] = j /\ before.file.order[b] = k
        /\ \/ Contains(Lower(before.file.map[j].name), Lower(args.query))
           \/ Contains(Lower(before.file.map[j].desktop_id), Lower(args.query))

\* the output directory of k lies under the --output-dir given, if one is
InsideManagedRoot(k) ==
  args.output_dir # None
  => safe_within(args.output_dir[1], ParsePath(before.file.map[k].output_dir))

\* the profiles removal by name is tried on
NamedKeys == StoreKeys \cup {KeyOf(AppFinder), KeyOf(AppAlias)}

\* C15 as stated: a non-dry-run --ungen whose query is the stored name of a
\* recorded profile, whatever the case, removes exactly that record, leaves
\* its output directory and mirrored copy absent and exits 0.
C15_RemovalByNameAlways ==
  \A k \in NamedKeys : UngenByName(k) => RemovedExactly(k)

\* C15: a non-dry-run --ungen whose query is the stored name of a recorded
\* profile, whatever the case, removes exactly that record, leaves its output
\* directory and mirrored copy absent and exits 0, when no other profile
\* has the lower-cased query as its key, no profile earlier in the file's
\* order has a name or identity containing the query, and the profile's
\* output directory lies under the --output-dir given, if one is.
C15_RemovalByName ==
  \A k \in NamedKeys :
     (UngenByName(k) /\ ~ShadowedName(k) /\ InsideManagedRoot(k))
     => RemovedExactly(k)

\* a profile was removed by its name, its directory and mirrored copy with
\* it, by a --ungen given the --output-dir the directory lay under
C15_Witness ==
  /\ UngenByName(KeyOf(AppFiles))
  /\ RemovedExactly(KeyOf(AppFiles))
  /\ args.output_dir # None
  /\ DOMAIN before.file.map = {KeyOf(AppFiles)}
  /\ ExistsText(before.fs, before.file.map[KeyOf(AppFiles)].output_dir)
  /\ before.file.map[KeyOf(AppFiles)].end4_json_path # <<>>
  /\ ExistsText(before.fs, before.file.map[KeyOf(AppFiles)].end4_json_path)

\* match_app has returned or raised
Matched == call.at = "returned" /\ call.fn = "match_app"

\* the query of the call, stripped and in lower case
MatchQuery == Lower(Strip(call.app_name))

\* the positions in the list of the applications having an alias equal to the
\* query, whatever the case
EqualAt == {k \in DOMAIN call.apps :
              \E al \in aliases(call.apps[k]) : Lower(al) = MatchQuery}

\* the positions of the applications having an alias that contains the
\* query or is contained in it
ContainingAt == {k \in DOMAIN call.apps :
                   \E al \in aliases(call.apps[k]) :
                      Contains(Lower(al), MatchQuery) \/ Contains(MatchQuery, Lower(al))}

\* the least position of a non-empty set of positions
FirstOf(S) == CHOOSE k \in S : \A j \in S : k <= j

\* C16: match_app with exact=True, on a non-empty query and list, returns
\* the first application of the list having an alias equal to the stripped
\* query, whatever the case, and raises "No exact app match" when there is
\* none.
C16_ExactMatch ==
  (Matched /\ call.exact /\ MatchQuery # <<>> /\ call.apps # <<>>)
  => IF EqualAt = {}
     THEN call.out = MatchResult("No exact app match", NoApp)
     ELSE call.out = MatchResult("", call.apps[FirstOf(EqualAt)])

\* an exact match returned an application with an equal alias that comes
\* after an application with an alias that only contains the query
C16_Witness ==
  /\ Matched
  /\ call.exact
  /\ call.out.raised = ""
  /\ EqualAt # {}
  /\ call.out.app = call.apps[FirstOf(EqualAt)]
  /\ \E k \in ContainingAt \ EqualAt : k < FirstOf(EqualAt)

\* the score of each application for each query, computed once: the
\* greatest similarity of the query and one of the application's aliases
MatchScores ==
  [x \in {Lower(Strip(q)) : q \in MatchQueries} \X MatchApps |->
     MaxFrac({ratio(x[1], Lower(al)) : al \in aliases(x[2])})] @@ <<>>

\* the score of the application at position k: the greatest similarity of
\* the query and one of its aliases
ScoreAt(k) == MatchScores[<<MatchQuery, call.apps[k]>>]

\* a non-exact match_app on a non-empty query and list has returned or raised
MatchedLoosely == Matched /\ ~call.exact /\ MatchQuery # <<>> /\ call.apps # <<>>

\* the application returned is the one at a position of S
ReturnedFrom(S) == call.out.raised = "" /\ \E k \in S : call.out.app = call.apps[k]

\* the fuzzy stage ranked the positions of S: an application is returned
\* when the greatest score over S is at least 0.45, and it has that score
RankedOver(S) ==
  IF \A k \in S : FracLess(ScoreAt(k), min_score)
  THEN call.out = MatchResult("No likely app match", NoApp)
  ELSE /\ ReturnedFrom(S)
       /\ \E k \in S : /\ call.out.app = call.apps[k]
                       /\ \A j \in S : ~FracLess(ScoreAt(k), ScoreAt(j))

\* C17: a non-exact match_app returns the only application with an alias
\* that contains the query or is contained in it, whatever its score; with
\* several such applications it returns none but one of them; with none the
\* fuzzy stage ranks the whole list.
C17_ContainmentTier ==
  MatchedLoosely
  => /\ Cardinality(ContainingAt) = 1
        => call.out = MatchResult("", call.apps[FirstOf(ContainingAt)])
     /\ Cardinality(ContainingAt) > 1
        => (call.out.raised = "" => ReturnedFrom(ContainingAt))
     /\ ContainingAt = {} => RankedOver(DOMAIN call.apps)

\* of three applications two contain the query, and one of the two was
\* returned though the third resembles the query more than either
C17_Witness ==
  /\ MatchedLoosely
  /\ Cardinality(ContainingAt) > 1
  /\ ReturnedFrom(ContainingAt)
  /\ \E j \in DOMAIN call.apps \ ContainingAt :
        /\ ~FracLess(ScoreAt(j), min_score)
        /\ \A k \in ContainingAt : FracLess(ScoreAt(k), ScoreAt(j))

\* the positions the fuzzy stage ranks
Pool == IF ContainingAt = {} THEN DOMAIN call.apps ELSE ContainingAt

\* the positions of the pool whose score is the greatest of the pool
TopOfPool == {k \in Pool : \A j \in Pool : ~FracLess(ScoreAt(k), ScoreAt(j))}

\* C18: when the fuzzy stage runs, match_app returns the first application
\* of the pool whose score is the greatest of the pool if that score is at
\* least 0.45, and raises "No likely app match" if it is below.
C18_FuzzyTier ==
  (MatchedLoosely /\ Cardinality(ContainingAt) # 1)
  => IF FracLess(ScoreAt(FirstOf(TopOfPool)), min_score)
     THEN call.out = MatchResult("No likely app match", NoApp)
     ELSE call.out = MatchResult("", call.apps[FirstOf(TopOfPool)])

\* two applications of the pool share the greatest score, at least 0.45, and
\* the first of them was returned
C18_Witness ==
  /\ MatchedLoosely
  /\ Cardinality(ContainingAt) # 1
  /\ Cardinality(TopOfPool) > 1
  /\ call.out = MatchResult("", call.apps[FirstOf(TopOfPool)])

\* C19: match_app raises "App name cannot be empty." when the stripped
\* query is empty, whatever the list; raises "No desktop apps detected."
\* when the query is not empty and the list is; and returns no application
\* in either case.
C19_InputErrors ==
  Matched
  => /\ MatchQuery = <<>>
        => call.out = MatchResult("App name cannot be empty.", NoApp)
     /\ (MatchQuery # <<>> /\ call.apps = <<>>)
        => call.out = MatchResult("No desktop apps detected.", NoApp)

\* a query of spaces was rejected as empty though the list is empty too
C19_Witness ==
  /\ Matched
  /\ call.app_name # <<>>
  /\ MatchQuery = <<>>
  /\ call.apps = <<>>
  /\ call.out.raised = "App name cannot be empty."

\* discover_apps has returned
Discovered == call.at = "returned" /\ call.fn = "discover_apps"

\* the entry the file f of the root r yields, or None when it yields none
Yield(r, f) ==
  IF f \notin Range(IF call.platform = "nt"
                    THEN RGlobbed(call.roots[r][1], Extension(call.platform))
                    ELSE Globbed(call.roots[r][1], Extension(call.platform)))
  THEN None
  ELSE IF call.platform = "linux"
       THEN parse_desktop_entry(SearchRoots(call.platform)[r], f)
       ELSE Some(bundle_entry(SearchRoots(call.platform)[r], f, Extension(call.platform)))

\* the entries the root r yields
YieldsOf(r) ==
  IF call.roots[r] = None THEN {}
  ELSE {Yield(r, call.roots[r][1][i])[1] :
          i \in {j \in DOMAIN call.roots[r][1] : Yield(r, call.roots[r][1][j]) # None}}

\* the entries of an identity from the first root that yields one
FirstYield(id) ==
  LET r == CHOOSE q \in DOMAIN call.roots :
             /\ \E e \in YieldsOf(q) : e.desktop_id = id
             /\ \A p \in 1..(q - 1) : \A e \in YieldsOf(p) : e.desktop_id # id
  IN {e \in YieldsOf(r) : e.desktop_id = id}

\* C20: on every platform discover_apps returns its entries sorted by
\* lower-cased name, one per identity, each the entry of the first search
\* root that yields its identity; a missing root and an unreadable
\* descriptor yield nothing.
C20_DiscoveryResult ==
  Discovered
  => /\ \A i, j \in DOMAIN call.out :
          i < j => ~StrLess(Lower(call.out[j].name), Lower(call.out[i].name))
     /\ \A i, j \in DOMAIN call.out :
          call.out[i].desktop_id = call.out[j].desktop_id => i = j
     /\ {call.out[i].desktop_id : i \in DOMAIN call.out}
          = {e.desktop_id : e \in UNION {YieldsOf(r) : r \in DOMAIN call.roots}}
     /\ \A i \in DOMAIN call.out : call.out[i] \in FirstYield(call.out[i].desktop_id)

\* _parse_desktop_entry has returned on a file it could read
ParsedDescriptor == call.at = "returned" /\ call.fn = "parse_desktop_entry" /\ call.file.readable

\* the line i of lines is a "key=value" line of the [Desktop Entry] group
InEntryGroup(lines, i) ==
  /\ lines[i].kind = "pair"
  /\ \E h \in 1..(i - 1) :
        /\ lines[h] = DesktopEntryGroup
        /\ \A g \in (h + 1)..(i - 1) : lines[g].kind # "group"

\* the field a key names: the localized variants of the name and of the
\* generic name are occurrences of these fields
FieldOf(key) ==
  IF IsPrefix(<<"N","a","m","e","[">>, key) THEN <<"N","a","m","e">>
  ELSE IF IsPrefix(<<"G","e","n","e","r","i","c","N","a","m","e","[">>, key) THEN <<"G","e","n","e","r","i","c","N","a","m","e">>
  ELSE key

\* the lines of the [Desktop Entry] group that give the field a value
OccurrencesOf(lines, field) ==
  {i \in DOMAIN lines :
     InEntryGroup(lines, i) /\ FieldOf(lines[i].key) = field /\ lines[i].value # <<>>}

\* the value of the first non-empty occurrence of the field, else default
FirstValue(lines, field, default) ==
  IF OccurrencesOf(lines, field) = {} THEN default
  ELSE lines[CHOOSE i \in OccurrencesOf(lines, field) :
               \A j \in OccurrencesOf(lines, field) : i <= j].value

\* the descriptor is to be rejected: no name, a type other than Application,
\* or a Hidden or NoDisplay flag that is true
Rejected(lines) ==
  \/ FirstValue(lines, <<"N","a","m","e">>, <<>>) = <<>>
  \/ Lower(FirstValue(lines, <<"T","y","p","e">>, <<"A","p","p","l","i","c","a","t","i","o","n">>)) # <<"a","p","p","l","i","c","a","t","i","o","n">>
  \/ Lower(FirstValue(lines, <<"H","i","d","d","e","n">>, <<"f","a","l","s","e">>)) = <<"t","r","u","e">>
  \/ Lower(FirstValue(lines, <<"N","o","D","i","s","p","l","a","y">>, <<"f","a","l","s","e">>)) = <<"t","r","u","e">>

\* C21: _parse_desktop_entry returns None exactly when the [Desktop Entry]
\* group gives no name, a type other than Application, or a Hidden or
\* NoDisplay flag that is true; otherwise it returns an entry with a
\* non-empty name whose aliases include the file name, its stem, the name,
\* the generic name, the icon and the keywords, those that are not empty.
C21_DescriptorAcceptance ==
  ParsedDescriptor
  => /\ (call.out = None) <=> Rejected(call.file.lines)
     /\ call.out # None
        => /\ call.out[1].name # <<>>
           /\ ({call.file.name, Stem(call.file.name), call.out[1].name,
                call.out[1].generic_name, call.out[1].icon}
                 \cup Range(call.out[1].keywords)) \ {<<>>}
              \subseteq aliases(call.out[1])
           /\ call.out[1].desktop_id = call.file.name

\* the positions of the lines that repeat no field: a line of the [Desktop
\* Entry] group is dropped when an earlier one gave its field a value
FirstSeen(lines) ==
  {i \in DOMAIN lines :
     InEntryGroup(lines, i)
     => \A j \in OccurrencesOf(lines, FieldOf(lines[i].key)) : i <= j}

\* the lines at the positions S, in order
RECURSIVE LinesAt(_, _, _)
LinesAt(lines, S, i) ==
  IF i > Len(lines) THEN <<>>
  ELSE (IF i \in S THEN <<lines[i]>> ELSE <<>>) \o LinesAt(lines, S, i + 1)

\* C25: the later occurrences of a field of the [Desktop Entry] group change
\* nothing: _parse_desktop_entry returns what it returns for the descriptor
\* without them.
C25_FirstSeenWins ==
  ParsedDescriptor
  => call.out =
       parse_desktop_entry(
         DESKTOP_DIRS[1],
         DescriptorFile(call.file.name, TRUE,
                        LinesAt(call.file.lines, FirstSeen(call.file.lines), 1)))

\* normalize_app_key has returned
Normalized == call.at = "returned" /\ call.fn = "normalize_app_key"

\* C22: normalize_app_key applied to its result returns it unchanged; the
\* result is not empty, is "unknown-app" for a name without a letter or
\* digit, holds only lower-case letters, digits and single hyphens, and
\* neither starts nor ends with a hyphen.
C22_NormalizationIdempotent ==
  Normalized
  => /\ normalize_app_key(call.out) = call.out
     /\ call.out # <<>>
     /\ (\A i \in DOMAIN call.raw_name : ~IsAlnum(call.raw_name[i]))
        => call.out = UnknownApp
     /\ \A i \in DOMAIN call.out :
          call.out[i] \in Range(LowerCase) \cup {"0","1","2","3","4","5","6","7","8","9", "-"}
     /\ \A i \in 1..(Len(call.out) - 1) : ~(call.out[i] = "-" /\ call.out[i + 1] = "-")
     /\ call.out[1] # "-"
     /\ call.out[Len(call.out)] # "-"

\* the step is a record_profile or a remove_profile on a state file that
\* holds an object with top-level keys other than "profiles"
MutatesWithExtraKeys ==
  /\ stateFile.kind = "object"
  /\ stateFile.extra # {}
  /\ lastOp'.op \in {"record", "remove"}

\* C23: a record_profile or remove_profile on a state file that holds an
\* object with other top-level keys than "profiles" leaves those keys and
\* their values as they are, and changes no entry of the profiles mapping
\* but the one of its key.
C23_ExtraKeysSurvive ==
  [][MutatesWithExtraKeys
     => /\ stateFile'.kind = "object"
        /\ stateFile'.extra = stateFile.extra
        /\ DOMAIN stateFile'.map \ {lastOp'.key} = DOMAIN stateFile.map \ {lastOp'.key}
        /\ \A k \in DOMAIN stateFile.map \ {lastOp'.key} :
             stateFile'.map[k] = stateFile.map[k]]_vars

\* a profile was recorded in a state file that had other top-level keys and
\* no "profiles" entry, and the keys are still there
C23_Witness ==
  /\ lastOp.op = "record"
  /\ lastOp.raised = ""
  /\ stateFile.extra # {}
  /\ DOMAIN stateFile.map = {lastOp.key}
  /\ stateFile.map[lastOp.key] = lastOp.record

\* the palette tool is installed, succeeds and leaves colors.json
Working(t) == t.avail /\ t.exit = 0 /\ t.writes

\* a step of a --gen-all without --force and --dry-run for an application
\* that shares its key with the application handled just before it, when no
\* record was under that key as the batch began and generation can succeed
\* for both: the palette tool works at both steps and the --image file exists
BatchStepOnSameKey ==
  /\ pc = "batch"
  /\ batch'.i = batch.i + 1
  /\ batch.i > 1
  /\ ~args.force
  /\ ~args.dry_run
  /\ KeyOf(discovered[batch.i - 1]) = KeyOf(discovered[batch.i])
  /\ KeyOf(discovered[batch.i]) \notin batch.state_profiles
  /\ Working(matugen)
  /\ Working(matugen')
  /\ args.image # None
  /\ ExistsText(before.fs, args.image[1])

\* C24: in --gen-all without --force, of two applications whose identities
\* normalize to one key the second is skipped as already existing: the
\* palette tool does not run for it, and the record written for the first
\* stays in the state file.
C24_NoDuplicatePerKey ==
  [][BatchStepOnSameKey
     => /\ batch'.handled[batch.i].result = "skip"
        /\ batch'.handled[batch.i].runs = 0
        /\ batch.handled[batch.i - 1].runs <= 1
        /\ HoldsRecord(stateFile', KeyOf(discovered[batch.i]))
        /\ stateFile'.map[KeyOf(discovered[batch.i])].desktop_id
             = discovered[batch.i - 1].desktop_id]_vars

\* the roots --gen and --gen-all write profiles under: the --output-dir
\* given, else the default
OutputRoots == {IF od # None THEN od[1] ELSE default_output_dir : od \in OutputDirs}

\* the entry (k, r) of the profiles mapping is consistent: k is the
\* normalized identity of r (its name when the identity is empty) and the
\* output directory of r is k under one of the output roots
ConsistentEntry(k, r) ==
  /\ k = normalize_app_key(IF r.desktop_id # <<>> THEN r.desktop_id ELSE r.name)
  /\ \E root \in OutputRoots : r.output_dir = PathStr(Join(root, k))

\* generate_for_app has returned a result
GeneratedResult == Generated /\ call.out.raised = ""

\* the key cli.main tests for an existing profile before it generates for
\* the application of the call
KeyTested == normalize_app_key(IdentityOrName(call.app))

\* the entry cli.main records from the result of the call
EntryRecorded ==
  record_payload(call.app.name, call.app.desktop_id, call.out.output_dir,
                 call.out.source_image, call.out.end4_json_path)

\* C26: every entry of the profiles mapping is consistent after any
\* sequence of invocations, and the result of a generation carries the key
\* that is tested for an existing profile, the entry recorded from it being
\* consistent under that key with its output directory the key under the
\* output root in effect.
C26_KeyRecordConsistency ==
  /\ \A k \in DOMAIN stateFile.map : ConsistentEntry(k, stateFile.map[k])
  /\ GeneratedResult
       => /\ call.out.app_key = KeyTested
          /\ ConsistentEntry(call.out.app_key, EntryRecorded)
          /\ EntryRecorded.output_dir
               = PathStr(Join(IF call.output_root # None THEN call.output_root[1]
                              ELSE default_output_dir, KeyTested))

\* a generation under --output-dir that ran the palette tool returned a
\* result for an application whose key differs from its identity and from
\* the key of its name
C26_Witness ==
  /\ GeneratedResult
  /\ ~call.dry_run
  /\ call.output_root # None
  /\ call.out.invoked = 1
  /\ call.out.app_key = KeyTested
  /\ KeyTested # call.app.desktop_id
  /\ KeyTested # normalize_app_key(call.app.name)

=============================================================================
